---- MODULE Spec2Model ----
(***************************************************************************)
(* A model of the animation core of the render crate:                      *)
(*   render/src/animator.rs  Animator (play_anim, update_anim_track,       *)
(*                           calc_*, calc_area, end, end_and_set, init)    *)
(*   render/src/area.rs      Area (is_valid, typed reads and writes)       *)
(* and of the avatar states of the widget crate:                           *)
(*   widget/src/xrcontrol.rs XRAvatarState, XRControl::process_avatar_state*)
(*                                                                         *)
(* f64 times are integers; std::f64::NAN is the value NaN.  A normalised   *)
(* local time (Play::compute_time) is the exact fraction <<num, den>>.     *)
(* f32 values are integers; a value of any kind is a record with its kind  *)
(* and the tuple of its components.  Option<T> is a tuple of length 0 or 1.*)
(* The f32 of an avatar state is kept bit for bit: <<m, e>> stands for     *)
(* m / 2^e with the 24 bit significand m.                                  *)
(***************************************************************************)
EXTENDS Integers, Sequences, FiniteSets, TLC

VARIABLES
    animator,   \* the Animator: current, next, area, live_update_id, last_values
    cx,         \* the parts of Cx the Animator and Area touch
    caller,     \* the owner of the Animator: the Anims it plays, the properties it reads
    xr_control, \* the XRControl: xr_avatars
    xr_channel  \* the XRChannel handed to the XRControl: self_id, users

vars == <<animator, cx, caller, xr_control, xr_channel>>

\* ------------------------------------------------------------------ bounds
MaxTime == 2
MaxRedraw == 1
MaxLiveUpdate == 1
MaxEarly == 3
MaxPushed == 1

\* ------------------------------------------------------------------ Option
None == <<>>
Some(x) == <<x>>
IsSome(o) == o # <<>>
IsNone(o) == o = <<>>
Unwrap(o) == o[1]

\* ------------------------------------------------------------------ f64
NaN == -1
is_nan(x) == x = NaN

\* ------------------------------------------------------------------ values
Kinds == {"Float", "Vec2", "Vec3", "Vec4", "Color"}

Float(x) == [kind |-> "Float", v |-> <<x>>]
Vec2(x, y) == [kind |-> "Vec2", v |-> <<x, y>>]
Vec3(x, y, z) == [kind |-> "Vec3", v |-> <<x, y, z>>]
Vec4(x, y, z, w) == [kind |-> "Vec4", v |-> <<x, y, z, w>>]
Color(r, g, b, a) == [kind |-> "Color", v |-> <<r, g, b, a>>]

\* T::default() of each kind
Zero(kind) ==
    CASE kind = "Float" -> Float(0)
      [] kind = "Vec2" -> Vec2(0, 0)
      [] kind = "Vec3" -> Vec3(0, 0, 0)
      [] kind = "Vec4" -> Vec4(0, 0, 0, 0)
      [] kind = "Color" -> Color(0, 0, 0, 0)
      [] kind = "Mat4" -> [kind |-> "Mat4", v |-> [j \in 1..16 |-> 0]]

\* ------------------------------------------------------------------ Area
Empty == [kind |-> "Empty", view_id |-> 0, draw_call_id |-> 0,
          instance_offset |-> 0, instance_count |-> 0, redraw_id |-> 0]
All == [kind |-> "All", view_id |-> 0, draw_call_id |-> 0,
        instance_offset |-> 0, instance_count |-> 0, redraw_id |-> 0]
Instance(offset, count, redraw) ==
    [kind |-> "Instance", view_id |-> 0, draw_call_id |-> 0,
     instance_offset |-> offset, instance_count |-> count, redraw_id |-> redraw]
View(redraw) ==
    [kind |-> "View", view_id |-> 0, draw_call_id |-> 0,
     instance_offset |-> 0, instance_count |-> 0, redraw_id |-> redraw]

\* only the generation is compared
is_valid_generation_only(area, c) ==
    area.kind \in {"Instance", "View"} /\ c.redraw_id = area.redraw_id

is_valid(area, c) ==
    CASE area.kind = "Instance" ->
            IF area.instance_count = 0 THEN FALSE
            ELSE IF c.redraw_id # area.redraw_id THEN FALSE
            ELSE TRUE
      [] area.kind = "View" ->
            IF c.redraw_id # area.redraw_id THEN FALSE ELSE TRUE
      [] OTHER -> FALSE

\* ------------------------------------------------------------------ Play, Track, Anim
\* An Anim is [play, tracks]; its play is [cut, term, total_time]: the policy
\* (cut, or chain when cut is FALSE), the terminal mark and the duration.
\* A Track is [kind, bind_to, keys, cut_init]; a key is <<time, value>> with
\* time the fraction <<num, den>> in [0, 1]; keys ascend by time; an Anim has
\* at most one Track per property identity.
play_cut(play) == play.cut
play_term(play) == play.term
play_total_time(play) == play.total_time
play_compute_time(play, time) == <<time, play.total_time>>
bind_id(track) == track.bind_to

\* fractions <<n, d>> with d > 0
FracLeq(a, b) == a[1] * b[2] <= b[1] * a[2]
FracLess(a, b) == a[1] * b[2] < b[1] * a[2]
\* (time - t0) / (t1 - t0), for t0 < t1
FracBetween(time, t0, t1) ==
    <<(time[1] * t0[2] - t0[1] * time[2]) * t1[2],
      time[2] * (t1[1] * t0[2] - t0[1] * t1[2])>>

\* linear easing: the fraction is its own image
ease_map(f) == f

\* a + (b - a) * f, per component
lerp(a, b, f) ==
    [kind |-> a.kind,
     v |-> [i \in DOMAIN a.v |-> (a.v[i] * f[2] + (b.v[i] - a.v[i]) * f[1]) \div f[2]]]

\* the value of a track of the kind at normalised time `time`, `last` being the
\* value observed before.  A time at or past the last key time gives the last
\* key's value, also when the first key time is that same time; a time at or
\* before the first key time gives `last` or the first key's value otherwise.
compute_track(kind, time, keys, cut_init, last) ==
    IF Len(keys) = 0 THEN Zero(kind)
    ELSE IF FracLeq(keys[Len(keys)][1], time) THEN keys[Len(keys)][2]
    ELSE IF FracLeq(time, keys[1][1]) THEN (IF cut_init THEN last ELSE keys[1][2])
    ELSE LET i == CHOOSE j \in 1..(Len(keys) - 1) :
                      FracLeq(keys[j][1], time) /\ FracLess(time, keys[j + 1][1])
         IN lerp(keys[i][2], keys[i + 1][2],
                 ease_map(FracBetween(time, keys[i][1], keys[i + 1][1])))

\* ------------------------------------------------------------------ shader metadata
\* cx.shaders[shader_id].mapping.instance_props: prop_map and props give, for a
\* property identity, its type and offset; total_slots is the instance stride.
ShaderMapping ==
    [total_slots |-> 14,
     props |-> (1 :> [ty |-> "Float", offset |-> 0]
             @@ 2 :> [ty |-> "Vec2", offset |-> 1]
             @@ 3 :> [ty |-> "Vec3", offset |-> 3]
             @@ 4 :> [ty |-> "Vec4", offset |-> 6]
             @@ 5 :> [ty |-> "Vec4", offset |-> 10])]

\* ------------------------------------------------------------------ Area: typed writes
\* the type of the property is not compared
get_instance_offset_any_type(area, c, live_item_id, ty) ==
    IF area.kind = "Instance" /\ live_item_id \in DOMAIN c.shader.props
    THEN Some(c.shader.props[live_item_id].offset)
    ELSE None

get_instance_offset(area, c, live_item_id, ty) ==
    IF area.kind = "Instance"
    THEN IF live_item_id \in DOMAIN c.shader.props
         THEN IF c.shader.props[live_item_id].ty # ty THEN None
              ELSE Some(c.shader.props[live_item_id].offset)
         ELSE None
    ELSE None

\* the InstanceWriteRef, and cx with the dirty flags the call sets
get_write_ref(area, c) ==
    IF area.kind = "Instance"
    THEN IF c.redraw_id # area.redraw_id THEN [cx |-> c, ref |-> None]
         ELSE [cx |-> [c EXCEPT !.paint_dirty = TRUE, !.instance_dirty = TRUE],
               ref |-> Some([offset |-> area.instance_offset,
                             count |-> area.instance_count,
                             slots |-> c.shader.total_slots])]
    ELSE [cx |-> c, ref |-> None]

\* only the first instance of the range is written
write_slots_first_instance(buffer, write, inst_offset, comps) ==
    [k \in DOMAIN buffer |->
        IF k - 1 - write.offset - inst_offset \in 0..(Len(comps) - 1)
        THEN comps[k - write.offset - inst_offset]
        ELSE buffer[k]]

\* buffer[offset + inst_offset + j + i * slots] = comps[j], for every instance i
\* (buffer cells are numbered from 0 in the code, from 1 here)
write_slots(buffer, write, inst_offset, comps) ==
    [k \in DOMAIN buffer |->
        LET d == k - 1 - write.offset - inst_offset IN
        IF d >= 0 /\ (d \div write.slots) < write.count
                  /\ (d % write.slots) < Len(comps)
        THEN comps[(d % write.slots) + 1]
        ELSE buffer[k]]

write_typed(area, c, live_item_id, ty, comps) ==
    LET inst_offset == get_instance_offset(area, c, live_item_id, ty) IN
    IF IsNone(inst_offset) THEN c
    ELSE LET w == get_write_ref(area, c) IN
         IF IsNone(w.ref) THEN w.cx
         ELSE [w.cx EXCEPT !.instance =
                   write_slots(@, Unwrap(w.ref), Unwrap(inst_offset), comps)]

write_float(area, c, live_item_id, value) ==
    write_typed(area, c, live_item_id, "Float", <<value.v[1]>>)

\* x is stored before y
write_vec2_natural(area, c, live_item_id, value) ==
    write_typed(area, c, live_item_id, "Vec2", <<value.v[1], value.v[2]>>)

write_vec2(area, c, live_item_id, value) ==
    write_typed(area, c, live_item_id, "Vec2", <<value.v[2], value.v[1]>>)

write_vec3(area, c, live_item_id, value) ==
    write_typed(area, c, live_item_id, "Vec3", <<value.v[2], value.v[1], value.v[3]>>)

write_vec4(area, c, live_item_id, value) ==
    write_typed(area, c, live_item_id, "Vec4",
                <<value.v[1], value.v[2], value.v[3], value.v[4]>>)

write_color(area, c, live_item_id, value) ==
    write_typed(area, c, live_item_id, "Vec4",
                <<value.v[1], value.v[2], value.v[3], value.v[4]>>)

write_kind(kind, area, c, live_item_id, value) ==
    CASE kind = "Float" -> write_float(area, c, live_item_id, value)
      [] kind = "Vec2" -> write_vec2(area, c, live_item_id, value)
      [] kind = "Vec3" -> write_vec3(area, c, live_item_id, value)
      [] kind = "Vec4" -> write_vec4(area, c, live_item_id, value)
      [] kind = "Color" -> write_color(area, c, live_item_id, value)

\* ------------------------------------------------------------------ Animator: last_values
\* last_values is the Vec of (LiveItemId, AnimLastValue) pairs, in push order.
\* the index of the first pair of the identity: iter().find(|v| v.0 == bind_id)
find_last(last_values, live_item_id) ==
    IF \E i \in DOMAIN last_values : last_values[i][1] = live_item_id
    THEN Some(CHOOSE i \in DOMAIN last_values :
                 /\ last_values[i][1] = live_item_id
                 /\ \A j \in 1..(i - 1) : last_values[j][1] # live_item_id)
    ELSE None

\* _last_float, _last_vec2, _last_vec3, _last_vec4, _last_color
last_value(kind, live_item_id, last_values) ==
    LET found == find_last(last_values, live_item_id) IN
    IF IsSome(found) /\ last_values[Unwrap(found)][2].kind = kind
    THEN last_values[Unwrap(found)][2]
    ELSE Zero(kind)

\* the pair is pushed without looking for the identity
set_last_value_push(live_item_id, value, last_values) ==
    Append(last_values, <<live_item_id, value>>)

\* _set_last_float, _set_last_vec2, _set_last_vec3, _set_last_vec4, _set_last_color:
\* the value carries its kind
set_last_value(live_item_id, value, last_values) ==
    LET found == find_last(last_values, live_item_id) IN
    IF IsSome(found)
    THEN [last_values EXCEPT ![Unwrap(found)] = <<live_item_id, value>>]
    ELSE Append(last_values, <<live_item_id, value>>)

\* the value of the first key is taken
track_first_key(track) ==
    IF Len(track.keys) > 0 THEN track.keys[1][2] ELSE Zero(track.kind)

\* the value set_anim_as_last_values takes from a track
track_last_key(track) ==
    IF Len(track.keys) > 0 THEN track.keys[Len(track.keys)][2] ELSE Zero(track.kind)

RECURSIVE set_tracks_as_last_values(_, _, _)
set_tracks_as_last_values(last_values, tracks, i) ==
    IF i > Len(tracks) THEN last_values
    ELSE set_tracks_as_last_values(
             set_last_value(bind_id(tracks[i]), track_last_key(tracks[i]), last_values),
             tracks, i + 1)

\* last_values is rebuilt from the tracks of the Anim alone
set_anim_as_last_values_reset(self, anim) ==
    [self EXCEPT !.last_values = set_tracks_as_last_values(<<>>, anim.tracks, 1)]

set_anim_as_last_values(self, anim) ==
    [self EXCEPT !.last_values = set_tracks_as_last_values(@, anim.tracks, 1)]

\* ------------------------------------------------------------------ Animator: init, end
\* the rebuild is done at every call, whatever the generation
init_always(self, c, anim) ==
    [self |-> set_anim_as_last_values(
                  [self EXCEPT !.live_update_id = c.live_update_id], anim),
     cx |-> IF self.area \in DOMAIN c.playing_anim_areas
            THEN [c EXCEPT !.playing_anim_areas[self.area].total_time = 0]
            ELSE c]

\* init(cx, cb), anim being what cb(cx) returns
init(self, c, anim) ==
    IF self.live_update_id # c.live_update_id
    THEN [self |-> set_anim_as_last_values(
                       [self EXCEPT !.live_update_id = c.live_update_id], anim),
          cx |-> IF self.area \in DOMAIN c.playing_anim_areas
                 THEN [c EXCEPT !.playing_anim_areas[self.area].total_time = 0]
                 ELSE c]
    ELSE [self |-> self, cx |-> c]

\* current is dropped and its closing values are not taken over
end_keep_values(self) ==
    [self EXCEPT !.current = None]

end(self) ==
    IF IsSome(self.current)
    THEN set_anim_as_last_values([self EXCEPT !.current = None], Unwrap(self.current))
    ELSE self

\* the closing values are taken from the Anim that was current
end_and_set_current(self, anim) ==
    IF IsSome(self.current)
    THEN set_anim_as_last_values([self EXCEPT !.current = None], Unwrap(self.current))
    ELSE self

end_and_set(self, anim) ==
    set_anim_as_last_values([self EXCEPT !.current = None], anim)

term_anim_playing(self) ==
    IF IsSome(self.current) THEN play_term(Unwrap(self.current).play) ELSE FALSE

\* ------------------------------------------------------------------ Animator: play_anim
\* the playing_anim_areas map
map_insert(map, key, value) ==
    [k \in DOMAIN map \cup {key} |-> IF k = key THEN value ELSE map[k]]
map_remove(map, key) ==
    [k \in DOMAIN map \ {key} |-> map[k]]

\* current is switched and the default values are forgotten
play_anim_invalid_no_values(self, c, anim) ==
    [self |-> [self EXCEPT !.current = Some(anim)], cx |-> c]

\* the Area is not valid: only the default values are set
play_anim_invalid(self, c, anim) ==
    [self |-> [set_anim_as_last_values(self, anim) EXCEPT !.current = Some(anim)],
     cx |-> c]

\* the cut leaves the queued Anim in place
play_anim_cut_keep_next(self, c, anim) ==
    [self |-> [self EXCEPT !.current = Some(anim)],
     cx |-> [c EXCEPT !.playing_anim_areas[self.area] =
                 [start_time |-> NaN, total_time |-> play_total_time(anim.play)]]]

\* current is replaced and the start_time of the entry is left as it was
play_anim_cut_keep_start(self, c, anim) ==
    [self |-> [self EXCEPT !.current = Some(anim), !.next = None],
     cx |-> [c EXCEPT !.playing_anim_areas[self.area].total_time =
                 play_total_time(anim.play)]]

\* an Anim with Chain policy is queued even when nothing is playing
play_anim_cut_chain_queues(self, c, anim) ==
    IF play_cut(anim.play)
    THEN [self |-> [self EXCEPT !.current = Some(anim), !.next = None],
          cx |-> [c EXCEPT !.playing_anim_areas[self.area] =
                      [start_time |-> NaN, total_time |-> play_total_time(anim.play)]]]
    ELSE [self |-> [self EXCEPT !.next = Some(anim)],
          cx |-> [c EXCEPT !.playing_anim_areas[self.area].total_time =
                      play_total_time(anim.play)]]

\* an entry exists, and the Anim cuts in or nothing is playing
play_anim_cut(self, c, anim) ==
    [self |-> [self EXCEPT !.current = Some(anim), !.next = None],
     cx |-> [c EXCEPT !.playing_anim_areas[self.area] =
                 [start_time |-> NaN, total_time |-> play_total_time(anim.play)]]]

\* the total counts the queued Anim alone
play_anim_queue_next_only(self, c, anim) ==
    [self |-> [self EXCEPT !.next = Some(anim)],
     cx |-> [c EXCEPT !.playing_anim_areas[self.area].total_time =
                 play_total_time(anim.play)]]

\* the total grows by the queued Anim, whatever it was
play_anim_queue_add(self, c, anim) ==
    [self |-> [self EXCEPT !.next = Some(anim)],
     cx |-> [c EXCEPT !.playing_anim_areas[self.area].total_time =
                 @ + play_total_time(anim.play)]]

\* an Anim already queued keeps its place: the first one wins
play_anim_queue_first_wins(self, c, anim) ==
    LET queued == IF IsSome(self.next) THEN Unwrap(self.next) ELSE anim IN
    [self |-> [self EXCEPT !.next = Some(queued)],
     cx |-> [c EXCEPT !.playing_anim_areas[self.area].total_time =
                 play_total_time(Unwrap(self.current).play) + play_total_time(queued.play)]]

\* an entry exists and the Anim is queued behind current
play_anim_queue(self, c, anim) ==
    [self |-> [self EXCEPT !.next = Some(anim)],
     cx |-> [c EXCEPT !.playing_anim_areas[self.area].total_time =
                 play_total_time(Unwrap(self.current).play) + play_total_time(anim.play)]]

\* the new entry starts at time 0 instead of unset
play_anim_new_stamped(self, c, anim) ==
    [self |-> [self EXCEPT !.current = Some(anim), !.next = None],
     cx |-> [c EXCEPT !.playing_anim_areas =
                 map_insert(@, self.area,
                            [start_time |-> 0,
                             total_time |-> play_total_time(anim.play)])]]

\* no entry yet
play_anim_new(self, c, anim) ==
    [self |-> [self EXCEPT !.current = Some(anim), !.next = None],
     cx |-> [c EXCEPT !.playing_anim_areas =
                 map_insert(@, self.area,
                            [start_time |-> NaN,
                             total_time |-> play_total_time(anim.play)])]]

\* the terminal check dropped: every play request goes through
play_anim_locked_never(self) == FALSE

\* a terminal Anim is playing: it can't be overridden
play_anim_locked(self) ==
    IF IsSome(self.current) THEN play_term(Unwrap(self.current).play) ELSE FALSE

play_anim(self, c, anim) ==
    LET s == [self EXCEPT !.live_update_id = c.live_update_id] IN
    IF play_anim_locked(s) THEN [self |-> s, cx |-> c]
    ELSE IF ~is_valid(s.area, c) THEN play_anim_invalid(s, c, anim)
    ELSE IF s.area \in DOMAIN c.playing_anim_areas
         THEN IF play_cut(anim.play) \/ IsNone(s.current)
              THEN play_anim_cut(s, c, anim)
              ELSE play_anim_queue(s, c, anim)
    ELSE IF s.area # Empty THEN play_anim_new(s, c, anim)
    ELSE [self |-> s, cx |-> c]

\* cx.update_area_refs(old_area, new_area): the entry of the old Area, if any,
\* follows the Animator to the new Area
update_area_refs(c, old_area, new_area) ==
    IF old_area = Empty \/ old_area \notin DOMAIN c.playing_anim_areas THEN c
    ELSE [c EXCEPT !.playing_anim_areas =
              map_insert(map_remove(@, old_area), new_area, @[old_area])]

set_area(self, c, area) ==
    [self |-> [self EXCEPT !.area = area],
     cx |-> update_area_refs(c, self.area, area)]

\* ------------------------------------------------------------------ Animator: advance
\* the entry of the Area is left behind
update_anim_track_idle_keep(self, c) ==
    [self |-> self, cx |-> c, ret |-> None]

\* current is absent: the entry of the Area is removed
update_anim_track_idle(self, c) ==
    [self |-> self,
     cx |-> [c EXCEPT !.playing_anim_areas = map_remove(@, self.area)],
     ret |-> None]

\* the promotion leaves next queued
update_anim_track_promote_keep_next(self, c, anim_info, time) ==
    LET current_total_time == play_total_time(Unwrap(self.current).play)
        start_time == anim_info.start_time + current_total_time
    IN [self |-> [self EXCEPT !.current = self.next],
        cx |-> [c EXCEPT !.playing_anim_areas[self.area] =
                    [start_time |-> start_time,
                     total_time |-> anim_info.total_time - current_total_time]],
        ret |-> Some(play_compute_time(Unwrap(self.next).play, time - start_time))]

\* the promotion forgets to move start_time
update_anim_track_promote_same_start(self, c, anim_info, time) ==
    LET current_total_time == play_total_time(Unwrap(self.current).play)
    IN [self |-> [self EXCEPT !.current = self.next, !.next = None],
        cx |-> [c EXCEPT !.playing_anim_areas[self.area] =
                    [start_time |-> anim_info.start_time,
                     total_time |-> anim_info.total_time - current_total_time]],
        ret |-> Some(play_compute_time(Unwrap(self.next).play,
                                       time - anim_info.start_time))]

\* the local time returned by the promotion is measured from the old start_time
update_anim_track_promote_old_time(self, c, anim_info, time) ==
    LET current_total_time == play_total_time(Unwrap(self.current).play)
        start_time == anim_info.start_time + current_total_time
    IN [self |-> [self EXCEPT !.current = self.next, !.next = None],
        cx |-> [c EXCEPT !.playing_anim_areas[self.area] =
                    [start_time |-> start_time,
                     total_time |-> anim_info.total_time - current_total_time]],
        ret |-> Some(play_compute_time(Unwrap(self.next).play,
                                       time - anim_info.start_time))]

\* next becomes current; anim_info has its start_time stamped
update_anim_track_promote(self, c, anim_info, time) ==
    LET current_total_time == play_total_time(Unwrap(self.current).play)
        start_time == anim_info.start_time + current_total_time
    IN [self |-> [self EXCEPT !.current = self.next, !.next = None],
        cx |-> [c EXCEPT !.playing_anim_areas[self.area] =
                    [start_time |-> start_time,
                     total_time |-> anim_info.total_time - current_total_time]],
        ret |-> Some(play_compute_time(Unwrap(self.next).play, time - start_time))]

\* an exhausted current is dropped by the advance
update_anim_track_stay_or_stop(self, c, anim_info, time) ==
    [self |-> IF time - anim_info.start_time >= play_total_time(Unwrap(self.current).play)
              THEN [self EXCEPT !.current = None]
              ELSE self,
     cx |-> [c EXCEPT !.playing_anim_areas[self.area] = anim_info],
     ret |-> Some(play_compute_time(Unwrap(self.current).play,
                                    time - anim_info.start_time))]

\* current stays; anim_info has its start_time stamped
update_anim_track_stay(self, c, anim_info, time) ==
    [self |-> self,
     cx |-> [c EXCEPT !.playing_anim_areas[self.area] = anim_info],
     ret |-> Some(play_compute_time(Unwrap(self.current).play,
                                    time - anim_info.start_time))]

update_anim_track(self, c, time) ==
    IF IsNone(self.current) THEN update_anim_track_idle(self, c)
    ELSE IF self.area \in DOMAIN c.playing_anim_areas
    THEN LET info == c.playing_anim_areas[self.area]
             anim_info == IF is_nan(info.start_time)
                          THEN [info EXCEPT !.start_time = time]
                          ELSE info
             current_total_time == play_total_time(Unwrap(self.current).play)
         IN IF time - anim_info.start_time >= current_total_time /\ ~IsNone(self.next)
            THEN update_anim_track_promote(self, c, anim_info, time)
            ELSE update_anim_track_stay(self, c, anim_info, time)
    ELSE [self |-> self, cx |-> c, ret |-> None]

\* ------------------------------------------------------------------ Animator: calc
find_track_index(self, live_item_id) ==
    LET tracks == Unwrap(self.current).tracks IN
    IF \E i \in DOMAIN tracks : bind_id(tracks[i]) = live_item_id
    THEN Some(CHOOSE i \in DOMAIN tracks :
                 /\ bind_id(tracks[i]) = live_item_id
                 /\ \A j \in 1..(i - 1) : bind_id(tracks[j]) # live_item_id)
    ELSE None

\* calc_float, calc_vec2, calc_vec3, calc_vec4: the same code for each kind
calc_value(kind, self, c, live_item_id, time) ==
    LET last == last_value(kind, live_item_id, self.last_values)
        u == update_anim_track(self, c, time)
        track_index == IF IsSome(u.ret) THEN find_track_index(u.self, live_item_id)
                       ELSE None
        ret == IF IsSome(track_index)
               THEN LET track == Unwrap(u.self.current).tracks[Unwrap(track_index)] IN
                    IF track.kind = kind
                    THEN compute_track(kind, Unwrap(u.ret), track.keys, track.cut_init, last)
                    ELSE last
               ELSE last
    IN [self |-> [u.self EXCEPT !.last_values = set_last_value(live_item_id, ret, @)],
        cx |-> u.cx,
        ret |-> ret]

calc_float(self, c, live_item_id, time) == calc_value("Float", self, c, live_item_id, time)
calc_vec2(self, c, live_item_id, time) == calc_value("Vec2", self, c, live_item_id, time)
calc_vec3(self, c, live_item_id, time) == calc_value("Vec3", self, c, live_item_id, time)
calc_vec4(self, c, live_item_id, time) == calc_value("Vec4", self, c, live_item_id, time)

calc_color(self, c, live_item_id, time) ==
    LET u == update_anim_track(self, c, time)
        track_index == IF IsSome(u.ret) THEN find_track_index(u.self, live_item_id)
                       ELSE None
    IN IF IsSome(track_index)
          /\ Unwrap(u.self.current).tracks[Unwrap(track_index)].kind = "Color"
       THEN LET track == Unwrap(u.self.current).tracks[Unwrap(track_index)]
                last == last_value("Color", live_item_id, u.self.last_values)
                ret == compute_track("Color", Unwrap(u.ret), track.keys, track.cut_init, last)
            IN [self |-> [u.self EXCEPT !.last_values = set_last_value(live_item_id, ret, @)],
                cx |-> u.cx,
                ret |-> ret]
       ELSE [self |-> u.self, cx |-> u.cx, ret |-> Zero("Color")]

\* the loop of calc_area over the tracks of current, from track_index on
\* the loop blends from the default of the kind, not from the cached value
RECURSIVE calc_area_tracks_zero_init(_, _, _, _, _)
calc_area_tracks_zero_init(self, c, area, time, track_index) ==
    IF track_index > Len(Unwrap(self.current).tracks) THEN [self |-> self, cx |-> c]
    ELSE LET track == Unwrap(self.current).tracks[track_index]
             ret == compute_track(track.kind, time, track.keys, track.cut_init,
                                  Zero(track.kind))
         IN calc_area_tracks_zero_init(
                [self EXCEPT !.last_values = set_last_value(track.bind_to, ret, @)],
                write_kind(track.kind, area, c, track.bind_to, ret),
                area, time, track_index + 1)

RECURSIVE calc_area_tracks(_, _, _, _, _)
calc_area_tracks(self, c, area, time, track_index) ==
    IF track_index > Len(Unwrap(self.current).tracks) THEN [self |-> self, cx |-> c]
    ELSE LET track == Unwrap(self.current).tracks[track_index]
             init_value == last_value(track.kind, track.bind_to, self.last_values)
             ret == compute_track(track.kind, time, track.keys, track.cut_init, init_value)
         IN calc_area_tracks(
                [self EXCEPT !.last_values = set_last_value(track.bind_to, ret, @)],
                write_kind(track.kind, area, c, track.bind_to, ret),
                area, time, track_index + 1)

\* the values are written to the Area and not cached
calc_area_skip_cache(self, c, area, time) ==
    LET u == update_anim_track(self, c, time) IN
    IF IsSome(u.ret)
    THEN [self |-> u.self,
          cx |-> calc_area_tracks(u.self, u.cx, area, Unwrap(u.ret), 1).cx]
    ELSE [self |-> u.self, cx |-> u.cx]

calc_area(self, c, area, time) ==
    LET u == update_anim_track(self, c, time) IN
    IF IsSome(u.ret) THEN calc_area_tracks(u.self, u.cx, area, Unwrap(u.ret), 1)
    ELSE [self |-> u.self, cx |-> u.cx]

\* ------------------------------------------------------------------ the Anims played
Key(num, den, value) == <<<<num, den>>, value>>

Track(kind, bind_to, keys, cut_init) ==
    [kind |-> kind, bind_to |-> bind_to, keys |-> keys, cut_init |-> cut_init]

Anim(cut, term, total_time, tracks) ==
    [play |-> [cut |-> cut, term |-> term, total_time |-> total_time],
     tracks |-> tracks]

FloatRamp == Track("Float", 1, <<Key(0, 1, Float(0)), Key(1, 1, Float(10))>>, FALSE)
FloatBlend == Track("Float", 1, <<Key(1, 2, Float(4)), Key(1, 1, Float(8))>>, TRUE)
FloatNoKeys == Track("Float", 1, <<>>, FALSE)
ColorOnVec2 == Track("Color", 2, <<Key(1, 1, Color(1, 0, 0, 1))>>, TRUE)
Vec3Ramp == Track("Vec3", 3, <<Key(0, 1, Vec3(1, 2, 3)), Key(1, 1, Vec3(3, 2, 1))>>, FALSE)
ColorRamp == Track("Color", 5, <<Key(0, 1, Color(0, 0, 0, 2)), Key(1, 1, Color(2, 0, 0, 2))>>, FALSE)
Vec4Step == Track("Vec4", 4, <<Key(1, 2, Vec4(4, 4, 4, 4))>>, FALSE)

CutA == Anim(TRUE, FALSE, 2, <<FloatRamp>>)
ChainB == Anim(FALSE, FALSE, 1, <<FloatBlend>>)
ChainC == Anim(FALSE, FALSE, 2, <<>>)
TermCut == Anim(TRUE, TRUE, 1, <<ColorOnVec2>>)
TermChain == Anim(FALSE, TRUE, 2, <<FloatNoKeys, Vec3Ramp>>)
CutD == Anim(TRUE, FALSE, 1, <<Vec4Step, ColorRamp>>)

\* a caller: the Anim definitions it plays, the (kind, identity) pairs it
\* evaluates with the per-property calc of the kind, the kind of Area its draw
\* hands to the Animator, and whether its animation frame handler calls calc_area
Callers ==
    { [anims |-> {CutA, ChainB}, props |-> {<<"Float", 1>>}, draws |-> "Instance",
       calc_area |-> TRUE],
      [anims |-> {ChainB, ChainC}, props |-> {<<"Vec2", 1>>}, draws |-> "View",
       calc_area |-> FALSE],
      [anims |-> {CutA, TermCut}, props |-> {<<"Color", 2>>}, draws |-> "Instance",
       calc_area |-> FALSE],
      [anims |-> {ChainC, TermChain}, props |-> {<<"Vec3", 3>>}, draws |-> "Instance",
       calc_area |-> TRUE],
      [anims |-> {CutD, ChainB}, props |-> {<<"Vec4", 4>>}, draws |-> "Instance",
       calc_area |-> FALSE] }

Anims == {CutA, ChainB, ChainC, TermCut, TermChain, CutD}

PropIds(kind) == { p[2] : p \in { q \in caller.props : q[1] = kind } }

Times == 0..MaxTime

\* the Area a draw of the caller hands out in the current redraw cycle
AreaInputs(c) ==
    IF caller.draws = "View" THEN { View(c.redraw_id) }
    ELSE { Instance(0, 2, c.redraw_id) }

\* ------------------------------------------------------------------ the state machine
\* XRControl::new and XRChannel::default(): no avatars, no users
XRControl_new == [xr_avatars |-> [id \in {} |-> 0]]
XRChannel_default == [self_id |-> 0, users |-> {}]

\* no XRControl takes part: it stays as constructed
XRIdle ==
    /\ xr_control = XRControl_new
    /\ xr_channel = XRChannel_default

\* the callers whose animation frame handler also calls calc_area
FrameCallers == { c \in Callers : c.calc_area }

Init ==
    /\ caller \in FrameCallers
    /\ animator = [current |-> None, next |-> None, area |-> Empty,
                   live_update_id |-> 0, last_values |-> <<>>]
    /\ cx = [live_update_id |-> 0,
             redraw_id |-> 0,
             playing_anim_areas |-> [a \in {} |-> 0],
             shader |-> ShaderMapping,
             instance |-> [i \in 1..(2 * ShaderMapping.total_slots) |-> 0],
             instance_dirty |-> FALSE,
             paint_dirty |-> FALSE]
    /\ XRIdle

\* the step of an operation whose result is the record r with fields self and cx
Step(r) ==
    /\ animator' = r.self
    /\ cx' = r.cx
    /\ UNCHANGED <<caller, xr_control, xr_channel>>

InitAnimator ==
    \E anim \in caller.anims : Step(init(animator, cx, anim))

PlayAnim ==
    \E anim \in caller.anims : Step(play_anim(animator, cx, anim))

End ==
    Step([self |-> end(animator), cx |-> cx])

EndAndSet ==
    \E anim \in caller.anims :
        Step([self |-> end_and_set(animator, anim), cx |-> cx])

SetArea ==
    \E area \in AreaInputs(cx) : Step(set_area(animator, cx, area))

UpdateAnimTrack ==
    \E time \in Times : Step(update_anim_track(animator, cx, time))

CalcFloat ==
    \E id \in PropIds("Float"), time \in Times :
        Step(calc_float(animator, cx, id, time))

CalcVec2 ==
    \E id \in PropIds("Vec2"), time \in Times :
        Step(calc_vec2(animator, cx, id, time))

CalcVec3 ==
    \E id \in PropIds("Vec3"), time \in Times :
        Step(calc_vec3(animator, cx, id, time))

CalcVec4 ==
    \E id \in PropIds("Vec4"), time \in Times :
        Step(calc_vec4(animator, cx, id, time))

CalcColor ==
    \E id \in PropIds("Color"), time \in Times :
        Step(calc_color(animator, cx, id, time))

\* set_anim_as_last_values called by the widget itself: current stays
SetAnimAsLastValues ==
    \E anim \in caller.anims :
        Step([self |-> set_anim_as_last_values(animator, anim), cx |-> cx])

\* the value a caller stores in the cache, by kind
SetValue(kind) ==
    CASE kind = "Float" -> Float(5)
      [] kind = "Vec2" -> Vec2(1, 2)
      [] kind = "Vec3" -> Vec3(1, 2, 3)
      [] kind = "Vec4" -> Vec4(1, 2, 3, 4)
      [] kind = "Color" -> Color(4, 3, 2, 1)

\* set_last_float .. set_last_color hand self.last_values to _set_last_float ..
\* _set_last_color
set_last(self, live_item_id, value) ==
    [self EXCEPT !.last_values = set_last_value(live_item_id, value, @)]

SetLastFloat ==
    \E id \in PropIds("Float") :
        Step([self |-> set_last(animator, id, SetValue("Float")), cx |-> cx])

SetLastVec2 ==
    \E id \in PropIds("Vec2") :
        Step([self |-> set_last(animator, id, SetValue("Vec2")), cx |-> cx])

SetLastVec3 ==
    \E id \in PropIds("Vec3") :
        Step([self |-> set_last(animator, id, SetValue("Vec3")), cx |-> cx])

SetLastVec4 ==
    \E id \in PropIds("Vec4") :
        Step([self |-> set_last(animator, id, SetValue("Vec4")), cx |-> cx])

SetLastColor ==
    \E id \in PropIds("Color") :
        Step([self |-> set_last(animator, id, SetValue("Color")), cx |-> cx])

CalcArea ==
    /\ caller.calc_area
    /\ \E area \in {animator.area}, time \in Times :
           Step(calc_area(animator, cx, area, time))

\* the container starts a new redraw cycle of the view
Redraw ==
    /\ cx.redraw_id < MaxRedraw
    /\ Step([self |-> animator, cx |-> [cx EXCEPT !.redraw_id = @ + 1]])

\* the live definitions change
LiveUpdate ==
    /\ cx.live_update_id < MaxLiveUpdate
    /\ Step([self |-> animator, cx |-> [cx EXCEPT !.live_update_id = @ + 1]])

Next ==
    \/ InitAnimator
    \/ PlayAnim
    \/ End
    \/ EndAndSet
    \/ SetArea
    \/ UpdateAnimTrack
    \/ CalcFloat
    \/ CalcVec3
    \/ CalcArea
    \/ SetAnimAsLastValues
    \/ SetLastFloat
    \/ SetLastVec3
    \/ Redraw
    \/ LiveUpdate

Spec == Init /\ [][Next]_vars

\* ------------------------------------------------------------------ callers driving an Area
\* callers that animate through calc_area alone: their animation frame handler
\* hands the Area of the last draw to calc_area and reads no single property
AreaCallers ==
    { [anims |-> {CutD, ChainB}, props |-> {}, draws |-> "Instance", calc_area |-> TRUE],
      [anims |-> {ChainC, TermChain}, props |-> {}, draws |-> "Instance", calc_area |-> TRUE],
      [anims |-> {CutA, TermCut}, props |-> {}, draws |-> "Instance", calc_area |-> TRUE],
      [anims |-> {CutA, ChainB}, props |-> {}, draws |-> "View", calc_area |-> TRUE] }

InitCalcArea ==
    /\ caller \in AreaCallers
    /\ animator = [current |-> None, next |-> None, area |-> Empty,
                   live_update_id |-> 0, last_values |-> <<>>]
    /\ cx = [live_update_id |-> 0,
             redraw_id |-> 0,
             playing_anim_areas |-> [a \in {} |-> 0],
             shader |-> ShaderMapping,
             instance |-> [i \in 1..(2 * ShaderMapping.total_slots) |-> 0],
             instance_dirty |-> FALSE,
             paint_dirty |-> FALSE]
    /\ XRIdle

\* the live definitions do not change while these callers run, so they never
\* call init
NextCalcArea ==
    \/ PlayAnim
    \/ End
    \/ EndAndSet
    \/ SetArea
    \/ CalcArea
    \/ SetAnimAsLastValues
    \/ Redraw

SpecCalcArea == InitCalcArea /\ [][NextCalcArea]_vars

\* ------------------------------------------------------------------ callers reading single properties
\* the callers that animate through the per-property calc alone, with live
\* definitions that change under them
ValueCallers == { c \in Callers : ~c.calc_area }

InitValues ==
    /\ caller \in ValueCallers
    /\ animator = [current |-> None, next |-> None, area |-> Empty,
                   live_update_id |-> 0, last_values |-> <<>>]
    /\ cx = [live_update_id |-> 0,
             redraw_id |-> 0,
             playing_anim_areas |-> [a \in {} |-> 0],
             shader |-> ShaderMapping,
             instance |-> [i \in 1..(2 * ShaderMapping.total_slots) |-> 0],
             instance_dirty |-> FALSE,
             paint_dirty |-> FALSE]
    /\ XRIdle

NextValues ==
    \/ InitAnimator
    \/ PlayAnim
    \/ End
    \/ EndAndSet
    \/ SetArea
    \/ UpdateAnimTrack
    \/ CalcVec2
    \/ CalcVec4
    \/ CalcColor
    \/ SetAnimAsLastValues
    \/ SetLastVec2
    \/ SetLastVec4
    \/ SetLastColor
    \/ Redraw
    \/ LiveUpdate

SpecValues == InitValues /\ [][NextValues]_vars

\* ------------------------------------------------------------------ Area: reads, uniforms, geometry
Mat4(v) == [kind |-> "Mat4", v |-> v]
Rect(x, y, w, h) == [x |-> x, y |-> y, w |-> w, h |-> h]

\* the mapping of a shader with a Mat4 instance property, the x/y/w/h of the
\* instance rect and two user uniforms
AreaShaderMapping ==
    [total_slots |-> 30,
     props |-> (1 :> [ty |-> "Float", offset |-> 0]
             @@ 2 :> [ty |-> "Vec2", offset |-> 1]
             @@ 3 :> [ty |-> "Vec3", offset |-> 3]
             @@ 4 :> [ty |-> "Vec4", offset |-> 6]
             @@ 5 :> [ty |-> "Vec4", offset |-> 10]
             @@ 6 :> [ty |-> "Mat4", offset |-> 14]),
     rect_instance_props |-> [x |-> Some(6), y |-> Some(7), w |-> Some(8), h |-> Some(9)],
     user_uniform_props |-> (7 :> [ty |-> "Float", offset |-> 0]
                          @@ 8 :> [ty |-> "Vec3", offset |-> 1])]

get_user_uniform_offset(area, c, live_item_id, ty) ==
    IF area.kind = "Instance"
    THEN IF live_item_id \in DOMAIN c.shader.user_uniform_props
         THEN IF c.shader.user_uniform_props[live_item_id].ty # ty THEN None
              ELSE Some(c.shader.user_uniform_props[live_item_id].offset)
         ELSE None
    ELSE None

\* the read ref is handed out without the generation check
get_read_ref_unchecked(area, c) ==
    IF area.kind = "Instance"
    THEN Some([offset |-> area.instance_offset,
               count |-> area.instance_count,
               slots |-> c.shader.total_slots])
    ELSE None

get_read_ref(area, c) ==
    IF area.kind = "Instance"
    THEN IF c.redraw_id # area.redraw_id THEN None
         ELSE Some([offset |-> area.instance_offset,
                    count |-> area.instance_count,
                    slots |-> c.shader.total_slots])
    ELSE None

\* ref tells whether &mut draw_call.user_uniforms is handed out
get_user_uniforms_write_ref(area, c) ==
    IF area.kind = "Instance"
    THEN IF c.redraw_id # area.redraw_id THEN [cx |-> c, ref |-> FALSE]
         ELSE [cx |-> [c EXCEPT !.paint_dirty = TRUE, !.uniforms_dirty = TRUE],
               ref |-> TRUE]
    ELSE [cx |-> c, ref |-> FALSE]

\* the n components read.buffer[read.offset + inst_offset + j] of the first
\* instance, or n zeros
read_typed(area, c, live_item_id, ty, n) ==
    LET inst_offset == get_instance_offset(area, c, live_item_id, ty) IN
    IF IsNone(inst_offset) THEN [j \in 1..n |-> 0]
    ELSE LET read == get_read_ref(area, c) IN
         IF IsNone(read) THEN [j \in 1..n |-> 0]
         ELSE [j \in 1..n |->
                  c.instance[Unwrap(read).offset + Unwrap(inst_offset) + (j - 1) + 1]]

read_float(area, c, live_item_id) ==
    LET r == read_typed(area, c, live_item_id, "Float", 1) IN Float(r[1])

read_vec2(area, c, live_item_id) ==
    LET r == read_typed(area, c, live_item_id, "Vec2", 2) IN Vec2(r[1], r[2])

read_vec3(area, c, live_item_id) ==
    LET r == read_typed(area, c, live_item_id, "Vec3", 3) IN Vec3(r[1], r[2], r[3])

read_vec4(area, c, live_item_id) ==
    LET r == read_typed(area, c, live_item_id, "Vec4", 4) IN Vec4(r[1], r[2], r[3], r[4])

read_color(area, c, live_item_id) ==
    LET r == read_typed(area, c, live_item_id, "Vec4", 4) IN Color(r[1], r[2], r[3], r[4])

read_mat4(area, c, live_item_id) ==
    Mat4(read_typed(area, c, live_item_id, "Mat4", 16))

write_mat4(area, c, live_item_id, value) ==
    write_typed(area, c, live_item_id, "Mat4", value.v)

\* write[uni_offset + j] = comps[j]
write_uniform_typed(area, c, live_item_id, ty, comps) ==
    LET uni_offset == get_user_uniform_offset(area, c, live_item_id, ty) IN
    IF IsNone(uni_offset) THEN c
    ELSE LET w == get_user_uniforms_write_ref(area, c) IN
         IF ~w.ref THEN w.cx
         ELSE [w.cx EXCEPT !.user_uniforms =
                   [k \in DOMAIN @ |->
                       IF k - 1 - Unwrap(uni_offset) \in 0..(Len(comps) - 1)
                       THEN comps[k - Unwrap(uni_offset)]
                       ELSE @[k]]]

write_uniform_float(area, c, live_item_id, v) ==
    write_uniform_typed(area, c, live_item_id, "Float", <<v.v[1]>>)

write_uniform_vec3(area, c, live_item_id, v) ==
    write_uniform_typed(area, c, live_item_id, "Vec3", <<v.v[1], v.v[2], v.v[3]>>)

\* every typed write and typed read of an Area, by the name of its kind
write_any(kind, area, c, live_item_id, value) ==
    CASE kind = "Mat4" -> write_mat4(area, c, live_item_id, value)
      [] kind = "UniformFloat" -> write_uniform_float(area, c, live_item_id, value)
      [] kind = "UniformVec3" -> write_uniform_vec3(area, c, live_item_id, value)
      [] OTHER -> write_kind(kind, area, c, live_item_id, value)

read_kind(kind, area, c, live_item_id) ==
    CASE kind = "Float" -> read_float(area, c, live_item_id)
      [] kind = "Vec2" -> read_vec2(area, c, live_item_id)
      [] kind = "Vec3" -> read_vec3(area, c, live_item_id)
      [] kind = "Vec4" -> read_vec4(area, c, live_item_id)
      [] kind = "Color" -> read_color(area, c, live_item_id)
      [] kind = "Mat4" -> read_mat4(area, c, live_item_id)

\* DrawCall::clip_and_scroll_rect with a clip rect that holds the whole rect
clip_and_scroll_rect(c, x, y, w, h) ==
    Rect(x - c.draw_scroll.v[1], y - c.draw_scroll.v[2], w, h)

get_local_scroll_pos(area, c) ==
    CASE area.kind = "Instance" ->
            IF c.redraw_id # area.redraw_id THEN Vec2(0, 0) ELSE c.unsnapped_scroll
      [] area.kind = "View" -> c.unsnapped_scroll
      [] OTHER -> Vec2(0, 0)

get_scroll_pos(area, c) ==
    CASE area.kind = "Instance" ->
            IF c.redraw_id # area.redraw_id THEN Vec2(0, 0)
            ELSE Vec2(c.draw_scroll.v[1], c.draw_scroll.v[2])
      [] area.kind = "View" -> c.parent_scroll
      [] OTHER -> Vec2(0, 0)

get_rect(area, c) ==
    CASE area.kind = "Instance" ->
            IF area.instance_count = 0 THEN Rect(0, 0, 0, 0)
            ELSE IF c.redraw_id # area.redraw_id THEN Rect(0, 0, 0, 0)
            ELSE LET props == c.shader.rect_instance_props IN
                 IF IsSome(props.x) /\ IsSome(props.y) /\ IsSome(props.w) /\ IsSome(props.h)
                 THEN clip_and_scroll_rect(c,
                          c.instance[area.instance_offset + Unwrap(props.x) + 1],
                          c.instance[area.instance_offset + Unwrap(props.y) + 1],
                          c.instance[area.instance_offset + Unwrap(props.w) + 1],
                          c.instance[area.instance_offset + Unwrap(props.h) + 1])
                 ELSE Rect(0, 0, 0, 0)
      [] area.kind = "View" ->
            Rect(c.rect.x - c.parent_scroll.v[1], c.rect.y - c.parent_scroll.v[2],
                 c.rect.w, c.rect.h)
      [] OTHER -> Rect(0, 0, 0, 0)

set_rect(area, c, rect) ==
    CASE area.kind = "Instance" ->
            IF c.redraw_id # area.redraw_id THEN c
            ELSE LET props == c.shader.rect_instance_props
                     put(buffer, ix, value) ==
                         IF IsSome(ix)
                         THEN [buffer EXCEPT ![area.instance_offset + Unwrap(ix) + 1] = value]
                         ELSE buffer
                 IN [c EXCEPT !.instance =
                        put(put(put(put(@, props.x, rect.x), props.y, rect.y),
                                props.w, rect.w), props.h, rect.h)]
      [] area.kind = "View" -> [c EXCEPT !.rect = rect]
      [] OTHER -> c

\* ------------------------------------------------------------------ widgets holding an Area
\* a widget keeps the Area of its last draw (in animator.area) and goes through
\* it for one kind of typed access, or for its rect
AreaWidgets ==
    { [anims |-> {}, props |-> {p}, draws |-> "Instance", calc_area |-> FALSE] :
          p \in { <<"Float", 1>>, <<"Vec2", 2>>, <<"Vec3", 3>>, <<"Vec4", 4>>,
                  <<"Color", 5>>, <<"Mat4", 6>>, <<"UniformFloat", 7>>,
                  <<"UniformVec3", 8>>, <<"Rect", 0>> } }
    \cup { [anims |-> {}, props |-> {<<"Rect", 0>>}, draws |-> "View",
            calc_area |-> FALSE] }

\* the value a widget writes, by kind
WriteValue(kind) ==
    CASE kind = "Float" -> Float(7)
      [] kind = "Vec2" -> Vec2(1, 2)
      [] kind = "Vec3" -> Vec3(1, 2, 3)
      [] kind = "Vec4" -> Vec4(1, 2, 3, 4)
      [] kind = "Color" -> Color(4, 3, 2, 1)
      [] kind = "Mat4" -> Mat4([j \in 1..16 |-> j])
      [] kind = "UniformFloat" -> Float(5)
      [] kind = "UniformVec3" -> Vec3(6, 7, 8)

\* the Areas a draw of the widget hands out in the current redraw cycle: the
\* whole batch, its second instance, or a batch that drew no instance
AreaHandles(c) ==
    IF caller.draws = "View" THEN { View(c.redraw_id) }
    ELSE { Instance(0, 2, c.redraw_id),
           Instance(c.shader.total_slots, 1, c.redraw_id),
           Instance(0, 0, c.redraw_id) }

InitArea ==
    /\ caller \in AreaWidgets
    /\ animator = [current |-> None, next |-> None, area |-> Empty,
                   live_update_id |-> 0, last_values |-> <<>>]
    /\ cx = [live_update_id |-> 0,
             redraw_id |-> 0,
             playing_anim_areas |-> [a \in {} |-> 0],
             shader |-> AreaShaderMapping,
             instance |-> [i \in 1..(2 * AreaShaderMapping.total_slots) |-> 0],
             instance_dirty |-> FALSE,
             paint_dirty |-> FALSE,
             user_uniforms |-> [i \in 1..4 |-> 0],
             uniforms_dirty |-> FALSE,
             rect |-> Rect(0, 0, 0, 0),
             parent_scroll |-> Vec2(0, 0),
             unsnapped_scroll |-> Vec2(0, 0),
             draw_scroll |-> Vec2(0, 0)]
    /\ XRIdle

\* the widget draws and keeps the Area it is handed
DrawArea ==
    \E area \in AreaHandles(cx) : Step(set_area(animator, cx, area))

WriteFloat ==
    \E id \in PropIds("Float") :
        Step([self |-> animator,
              cx |-> write_float(animator.area, cx, id, WriteValue("Float"))])

WriteVec2 ==
    \E id \in PropIds("Vec2") :
        Step([self |-> animator,
              cx |-> write_vec2(animator.area, cx, id, WriteValue("Vec2"))])

WriteVec3 ==
    \E id \in PropIds("Vec3") :
        Step([self |-> animator,
              cx |-> write_vec3(animator.area, cx, id, WriteValue("Vec3"))])

WriteVec4 ==
    \E id \in PropIds("Vec4") :
        Step([self |-> animator,
              cx |-> write_vec4(animator.area, cx, id, WriteValue("Vec4"))])

WriteColor ==
    \E id \in PropIds("Color") :
        Step([self |-> animator,
              cx |-> write_color(animator.area, cx, id, WriteValue("Color"))])

WriteMat4 ==
    \E id \in PropIds("Mat4") :
        Step([self |-> animator,
              cx |-> write_mat4(animator.area, cx, id, WriteValue("Mat4"))])

WriteUniformFloat ==
    \E id \in PropIds("UniformFloat") :
        Step([self |-> animator,
              cx |-> write_uniform_float(animator.area, cx, id,
                                         WriteValue("UniformFloat"))])

WriteUniformVec3 ==
    \E id \in PropIds("UniformVec3") :
        Step([self |-> animator,
              cx |-> write_uniform_vec3(animator.area, cx, id,
                                        WriteValue("UniformVec3"))])

\* get_write_ref called for the reference alone: the flags are set and nothing
\* is stored
GetWriteRef ==
    Step([self |-> animator, cx |-> get_write_ref(animator.area, cx).cx])

\* get_user_uniforms_write_ref called for the reference alone
GetUserUniformsWriteRef ==
    Step([self |-> animator, cx |-> get_user_uniforms_write_ref(animator.area, cx).cx])

\* InstanceArea::write_uniform_float: neither the generation of the handle is
\* compared nor a dirty flag set
InstanceArea_write_uniform_float(area, c, live_item_id, v) ==
    IF live_item_id \in DOMAIN c.shader.user_uniform_props
       /\ c.shader.user_uniform_props[live_item_id].ty = "Float"
    THEN [c EXCEPT !.user_uniforms[c.shader.user_uniform_props[live_item_id].offset + 1] =
                       v.v[1]]
    ELSE c

InstanceWriteUniformFloat ==
    /\ animator.area.kind = "Instance"
    /\ \E id \in PropIds("UniformFloat") :
           Step([self |-> animator,
                 cx |-> InstanceArea_write_uniform_float(animator.area, cx, id,
                                                         WriteValue("UniformFloat"))])

\* InstanceArea::push_*: the floats are appended to the instance buffer of the
\* draw call the handle names; the generation of the handle is not compared
\* and no dirty flag is set
push_slice(area, c, data) == [c EXCEPT !.instance = @ \o data]

push_float(area, c, value) == [c EXCEPT !.instance = @ \o <<value.v[1]>>]

push_vec2(area, c, value) == [c EXCEPT !.instance = @ \o <<value.v[1], value.v[2]>>]

push_vec3(area, c, value) ==
    [c EXCEPT !.instance = @ \o <<value.v[1], value.v[2], value.v[3]>>]

push_vec4(area, c, value) ==
    [c EXCEPT !.instance = @ \o <<value.v[1], value.v[2], value.v[3], value.v[4]>>]

push_color(area, c, value) ==
    [c EXCEPT !.instance = @ \o <<value.v[1], value.v[2], value.v[3], value.v[4]>>]

push_kind(kind, area, c, value) ==
    CASE kind = "Float" -> push_float(area, c, value)
      [] kind = "Vec2" -> push_vec2(area, c, value)
      [] kind = "Vec3" -> push_vec3(area, c, value)
      [] kind = "Vec4" -> push_vec4(area, c, value)
      [] kind = "Color" -> push_color(area, c, value)

\* push_last_float .. push_last_color: the cached value of the identity is
\* pushed and returned
push_last(kind, area, c, self, live_item_id) ==
    LET ret == last_value(kind, live_item_id, self.last_values) IN
    [cx |-> push_kind(kind, area, c, ret), ret |-> ret]

\* the widget holds an InstanceArea and has pushed fewer than MaxPushed values
\* of n floats
CanPush(n) ==
    /\ animator.area.kind = "Instance"
    /\ Len(cx.instance) + n <= 2 * cx.shader.total_slots + MaxPushed * n

PushSlice ==
    /\ PropIds("Rect") # {}
    /\ CanPush(4)
    /\ Step([self |-> animator, cx |-> push_slice(animator.area, cx, <<1, 2, 3, 4>>)])

PushFloat ==
    /\ PropIds("Float") # {}
    /\ CanPush(1)
    /\ Step([self |-> animator,
             cx |-> push_float(animator.area, cx, WriteValue("Float"))])

PushVec2 ==
    /\ PropIds("Vec2") # {}
    /\ CanPush(2)
    /\ Step([self |-> animator,
             cx |-> push_vec2(animator.area, cx, WriteValue("Vec2"))])

PushVec3 ==
    /\ PropIds("Vec3") # {}
    /\ CanPush(3)
    /\ Step([self |-> animator,
             cx |-> push_vec3(animator.area, cx, WriteValue("Vec3"))])

PushVec4 ==
    /\ PropIds("Vec4") # {}
    /\ CanPush(4)
    /\ Step([self |-> animator,
             cx |-> push_vec4(animator.area, cx, WriteValue("Vec4"))])

PushColor ==
    /\ PropIds("Color") # {}
    /\ CanPush(4)
    /\ Step([self |-> animator,
             cx |-> push_color(animator.area, cx, WriteValue("Color"))])

PushLastFloat ==
    /\ CanPush(1)
    /\ \E id \in PropIds("Float") :
           Step([self |-> animator,
                 cx |-> push_last("Float", animator.area, cx, animator, id).cx])

PushLastVec2 ==
    /\ CanPush(2)
    /\ \E id \in PropIds("Vec2") :
           Step([self |-> animator,
                 cx |-> push_last("Vec2", animator.area, cx, animator, id).cx])

PushLastVec3 ==
    /\ CanPush(3)
    /\ \E id \in PropIds("Vec3") :
           Step([self |-> animator,
                 cx |-> push_last("Vec3", animator.area, cx, animator, id).cx])

PushLastVec4 ==
    /\ CanPush(4)
    /\ \E id \in PropIds("Vec4") :
           Step([self |-> animator,
                 cx |-> push_last("Vec4", animator.area, cx, animator, id).cx])

PushLastColor ==
    /\ CanPush(4)
    /\ \E id \in PropIds("Color") :
           Step([self |-> animator,
                 cx |-> push_last("Color", animator.area, cx, animator, id).cx])

SetRect ==
    /\ PropIds("Rect") # {}
    /\ Step([self |-> animator, cx |-> set_rect(animator.area, cx, Rect(1, 2, 3, 4))])

\* the view and its draw call are scrolled
Scroll ==
    /\ cx.unsnapped_scroll = Vec2(0, 0)
    /\ Step([self |-> animator,
             cx |-> [cx EXCEPT !.unsnapped_scroll = Vec2(1, 2),
                               !.parent_scroll = Vec2(3, 4),
                               !.draw_scroll = Vec2(5, 6)]])

\* the renderer uploads the buffers and clears the dirty flags
Paint ==
    /\ cx.paint_dirty
    /\ Step([self |-> animator,
             cx |-> [cx EXCEPT !.paint_dirty = FALSE, !.instance_dirty = FALSE,
                               !.uniforms_dirty = FALSE]])

NextArea ==
    \/ DrawArea
    \/ Redraw
    \/ WriteFloat
    \/ WriteVec2
    \/ WriteVec3
    \/ WriteVec4
    \/ WriteColor
    \/ WriteMat4
    \/ WriteUniformFloat
    \/ WriteUniformVec3
    \/ GetWriteRef
    \/ GetUserUniformsWriteRef
    \/ InstanceWriteUniformFloat
    \/ PushSlice
    \/ PushFloat
    \/ PushVec2
    \/ PushVec3
    \/ PushVec4
    \/ PushColor
    \/ PushLastFloat
    \/ PushLastVec2
    \/ PushLastVec3
    \/ PushLastVec4
    \/ PushLastColor
    \/ SetRect
    \/ Scroll
    \/ Paint

SpecArea == InitArea /\ [][NextArea]_vars

\* ------------------------------------------------------------------ properties
HasEntry(self, c) == self.area \in DOMAIN c.playing_anim_areas
Entry(self, c) == c.playing_anim_areas[self.area]
Terminal(self) == IsSome(self.current) /\ Unwrap(self.current).play.term
Duration(anim) == anim.play.total_time

\* C1 (terminal lock): while the current Anim is terminal, play_anim of any Anim,
\* of either policy, on a valid or an invalid Area, leaves current, next,
\* last_values and the registry as they were.
C1_TerminalLock ==
    \A anim \in Anims :
        Terminal(animator) =>
            LET r == play_anim(animator, cx, anim) IN
            /\ r.self.current = animator.current
            /\ r.self.next = animator.next
            /\ r.self.last_values = animator.last_values
            /\ r.cx.playing_anim_areas = cx.playing_anim_areas

\* a terminal Anim is current on a valid Area that has a registry entry, and the
\* caller has another Anim, with Cut policy, to play
C1_Witness ==
    /\ Terminal(animator)
    /\ is_valid(animator.area, cx)
    /\ HasEntry(animator, cx)
    /\ \E anim \in caller.anims :
           /\ Some(anim) # animator.current
           /\ anim.play.cut
           /\ play_anim(animator, cx, anim).self.current = animator.current

\* the states A can be in mid-flight after the result r of playing it: r itself,
\* what a first advance makes of it, and what a later advance at an elapsed time
\* below A's duration makes of that
Advance(r, time) ==
    LET u == update_anim_track(r.self, r.cx, time) IN [self |-> u.self, cx |-> u.cx]

MidFlight(r, A) ==
    LET once == { Advance(r, t) : t \in Times }
        twice == UNION { { Advance(m, t) :
                             t \in { x \in Times :
                                       /\ HasEntry(m.self, m.cx)
                                       /\ x > Entry(m.self, m.cx).start_time
                                       /\ x - Entry(m.self, m.cx).start_time < Duration(A) } }
                         : m \in once }
    IN {r} \cup once \cup twice

\* every Anim B with Chain policy played mid-flight of A is queued behind A
ChainedOnto(r, A) ==
    LET mids == MidFlight(r, A) IN
    \A B \in { anim \in Anims : ~anim.play.cut } :
        \A m \in mids :
            LET q == play_anim(m.self, m.cx, B) IN
            /\ q.self.current = Some(A)
            /\ q.self.next = Some(B)
            /\ HasEntry(q.self, q.cx)
            /\ Entry(q.self, q.cx).total_time = Duration(A) + Duration(B)

\* C2 as stated (chaining total): on a valid Area, play_anim(A) with Cut policy
\* followed mid-flight by play_anim(B) with Chain policy leaves current = A,
\* next = B and total_time = A.duration + B.duration.
C2_AsStated ==
    \A A \in Anims :
        (is_valid(animator.area, cx) /\ A.play.cut) =>
            ChainedOnto(play_anim(animator, cx, A), A)

\* C2 amended: the same, when no terminal Anim is current at the first call and
\* A is not terminal.
C2_ChainingTotal ==
    \A A \in Anims :
        (/\ is_valid(animator.area, cx) /\ A.play.cut
         /\ ~Terminal(animator) /\ ~A.play.term) =>
            ChainedOnto(play_anim(animator, cx, A), A)

\* A, cut in and not terminal, is in flight on a valid Area with a stamped
\* start_time, and B has been chained onto it
C2_Witness ==
    /\ is_valid(animator.area, cx)
    /\ IsSome(animator.current) /\ IsSome(animator.next)
    /\ Unwrap(animator.current).play.cut /\ ~Unwrap(animator.current).play.term
    /\ ~Unwrap(animator.next).play.cut
    /\ HasEntry(animator, cx)
    /\ ~is_nan(Entry(animator, cx).start_time)
    /\ Entry(animator, cx).total_time =
           Duration(Unwrap(animator.current)) + Duration(Unwrap(animator.next))
    /\ play_anim(animator, cx, Unwrap(animator.next)).cx = cx

\* C3 (chain promotion): with current A, next B and a stamped start_time s, an
\* advance at now with now - s >= A.duration makes B current, empties next, sets
\* start_time to s + A.duration, lowers total_time by A.duration and returns B's
\* local time at now - (s + A.duration); an advance with now - s < A.duration
\* leaves current, next, start_time and total_time unchanged.
C3_ChainPromotion ==
    \A now \in Times :
        (/\ IsSome(animator.current) /\ IsSome(animator.next)
         /\ HasEntry(animator, cx) /\ ~is_nan(Entry(animator, cx).start_time)) =>
            LET A == Unwrap(animator.current)
                B == Unwrap(animator.next)
                s == Entry(animator, cx).start_time
                r == update_anim_track(animator, cx, now)
            IN IF now - s >= Duration(A)
               THEN /\ r.self.current = Some(B)
                    /\ r.self.next = None
                    /\ Entry(r.self, r.cx).start_time = s + Duration(A)
                    /\ Entry(r.self, r.cx).total_time =
                           Entry(animator, cx).total_time - Duration(A)
                    /\ r.ret = Some(<<now - (s + Duration(A)), Duration(B)>>)
               ELSE /\ r.self.current = animator.current
                    /\ r.self.next = animator.next
                    /\ Entry(r.self, r.cx) = Entry(animator, cx)

\* B is queued behind A, start_time is stamped, and an advance of the caller
\* reaches A's duration and promotes B
C3_Witness ==
    /\ IsSome(animator.current) /\ IsSome(animator.next)
    /\ HasEntry(animator, cx) /\ ~is_nan(Entry(animator, cx).start_time)
    /\ animator.current # animator.next
    /\ \E now \in Times :
           /\ now - Entry(animator, cx).start_time > Duration(Unwrap(animator.current))
           /\ update_anim_track(animator, cx, now).self.current = animator.next

\* C4 (cut on an existing entry): on a valid Area with a registry entry and no
\* terminal current, play_anim of an Anim with Cut policy makes it current,
\* clears next, resets start_time to NaN and sets total_time to its duration.
C4_CutOnEntry ==
    \A anim \in Anims :
        (/\ is_valid(animator.area, cx) /\ HasEntry(animator, cx)
         /\ ~Terminal(animator) /\ anim.play.cut) =>
            LET r == play_anim(animator, cx, anim) IN
            /\ r.self.current = Some(anim)
            /\ r.self.next = None
            /\ HasEntry(r.self, r.cx)
            /\ is_nan(Entry(r.self, r.cx).start_time)
            /\ Entry(r.self, r.cx).total_time = Duration(anim)

\* an Anim is in flight with another queued and start_time stamped, and the
\* caller has an Anim with Cut policy to cut in
C4_Witness ==
    /\ is_valid(animator.area, cx) /\ HasEntry(animator, cx) /\ ~Terminal(animator)
    /\ IsSome(animator.current) /\ IsSome(animator.next)
    /\ ~is_nan(Entry(animator, cx).start_time)
    /\ \E anim \in caller.anims :
           /\ anim.play.cut
           /\ play_anim(animator, cx, anim).self.next = None

ChainPre(anim) ==
    /\ is_valid(animator.area, cx) /\ HasEntry(animator, cx)
    /\ IsSome(animator.current) /\ ~Terminal(animator)
    /\ ~anim.play.cut

\* C5 as stated (chain extends the total): on a valid Area with an entry and a
\* non-terminal current, play_anim of an Anim with Chain policy stores it as next,
\* leaves current unchanged and raises total_time by the Anim's duration over its
\* value before the call.
C5_AsStated ==
    \A anim \in Anims :
        ChainPre(anim) =>
            LET r == play_anim(animator, cx, anim) IN
            /\ r.self.next = Some(anim)
            /\ r.self.current = animator.current
            /\ Entry(r.self, r.cx).total_time =
                   Entry(animator, cx).total_time + Duration(anim)

\* C5 amended: the call stores the Anim as next, leaves current unchanged and
\* sets total_time to current.duration + anim.duration, which is a rise by
\* anim.duration exactly when total_time was current.duration before the call.
C5_ChainSetsTotal ==
    \A anim \in Anims :
        ChainPre(anim) =>
            LET r == play_anim(animator, cx, anim) IN
            /\ r.self.next = Some(anim)
            /\ r.self.current = animator.current
            /\ Entry(r.self, r.cx).start_time = Entry(animator, cx).start_time
            /\ Entry(r.self, r.cx).total_time =
                   Duration(Unwrap(animator.current)) + Duration(anim)

\* an Anim is already queued behind a non-terminal current whose entry holds
\* more than current's duration, and the caller chains another Anim
C5_Witness ==
    /\ IsSome(animator.next)
    /\ HasEntry(animator, cx)
    /\ IsSome(animator.current)
    /\ Entry(animator, cx).total_time > Duration(Unwrap(animator.current))
    /\ \E anim \in caller.anims :
           /\ ChainPre(anim)
           /\ Some(anim) # animator.next
           /\ play_anim(animator, cx, anim).self.next = Some(anim)

\* the final key value of a track, the zero of its kind when it has no keys
FinalKey(track) ==
    IF track.keys = <<>> THEN Zero(track.kind) ELSE track.keys[Len(track.keys)][2]

\* last_values holds exactly one pair of the identity, with the value
Caches(last_values, live_item_id, value) ==
    /\ \E i \in DOMAIN last_values : last_values[i] = <<live_item_id, value>>
    /\ Cardinality({ i \in DOMAIN last_values : last_values[i][1] = live_item_id }) = 1

\* C6 (play on an Area that is not valid): with no terminal current, play_anim
\* makes the Anim current whatever its policy, caches the final key value of each
\* of its tracks (the zero of the kind for a track without keys) and leaves the
\* registry as it was.
C6_PlayOnInvalidArea ==
    \A anim \in Anims :
        (~is_valid(animator.area, cx) /\ ~Terminal(animator)) =>
            LET r == play_anim(animator, cx, anim) IN
            /\ r.self.current = Some(anim)
            /\ \A i \in DOMAIN anim.tracks :
                   Caches(r.self.last_values, anim.tracks[i].bind_to, FinalKey(anim.tracks[i]))
            /\ r.cx.playing_anim_areas = cx.playing_anim_areas

\* the Area went stale with an Anim in flight and an entry in the registry, and
\* the caller plays an Anim with Chain policy whose track has another value
\* cached than its final key
C6_Witness ==
    /\ ~is_valid(animator.area, cx) /\ ~Terminal(animator)
    /\ IsSome(animator.current) /\ HasEntry(animator, cx)
    /\ \E anim \in caller.anims :
           /\ ~anim.play.cut
           /\ Some(anim) # animator.current
           /\ \E i \in DOMAIN anim.tracks :
                  /\ anim.tracks[i].keys # <<>>
                  /\ ~Caches(animator.last_values, anim.tracks[i].bind_to,
                             FinalKey(anim.tracks[i]))
           /\ play_anim(animator, cx, anim).self.current = Some(anim)

FreshPlay(anim) ==
    LET r == play_anim(animator, cx, anim) IN
    /\ r.self.current = Some(anim)
    /\ r.self.next = None
    /\ DOMAIN r.cx.playing_anim_areas = DOMAIN cx.playing_anim_areas \cup {animator.area}
    /\ Entry(r.self, r.cx) = [start_time |-> NaN, total_time |-> Duration(anim)]
    /\ \A a \in DOMAIN cx.playing_anim_areas :
           r.cx.playing_anim_areas[a] = cx.playing_anim_areas[a]

\* C7 as stated (first play on a fresh valid Area): on a valid Area without a
\* registry entry, play_anim of either policy makes the Anim current, leaves next
\* empty and inserts the entry (NaN, anim.duration).
C7_AsStated ==
    \A anim \in Anims :
        (is_valid(animator.area, cx) /\ ~HasEntry(animator, cx)) => FreshPlay(anim)

\* C7 amended: the same, when the current Anim is not terminal.
C7_FirstPlay ==
    \A anim \in Anims :
        (is_valid(animator.area, cx) /\ ~HasEntry(animator, cx) /\ ~Terminal(animator)) =>
            FreshPlay(anim)

\* the Area is valid and has no entry, an Anim is left in next, and the caller
\* has an Anim with Chain policy to play
C7_Witness ==
    /\ is_valid(animator.area, cx) /\ ~HasEntry(animator, cx) /\ ~Terminal(animator)
    /\ IsSome(animator.next)
    /\ \E anim \in caller.anims :
           /\ ~anim.play.cut
           /\ HasEntry(animator, play_anim(animator, cx, anim).cx)

\* the property identities the caller computes
CallerIds == { p[2] : p \in caller.props }

\* C8 (orphan reclamation): with current absent, an advance returns no local
\* time, and after it, as after any per-property calc or calc_area, the registry
\* has no entry for the Area; end and end_and_set leave current absent, so this
\* is the state one calc after them is made in.
C8_OrphanReclamation ==
    LET Gone(r) == ~HasEntry(r.self, r.cx) /\ IsNone(r.self.current)
    IN /\ IsNone(animator.current) =>
              \A time \in Times :
                  /\ update_anim_track(animator, cx, time).ret = None
                  /\ Gone(update_anim_track(animator, cx, time))
                  /\ Gone(calc_area(animator, cx, animator.area, time))
                  /\ \A id \in CallerIds :
                         /\ Gone(calc_float(animator, cx, id, time))
                         /\ Gone(calc_vec2(animator, cx, id, time))
                         /\ Gone(calc_vec3(animator, cx, id, time))
                         /\ Gone(calc_vec4(animator, cx, id, time))
                         /\ Gone(calc_color(animator, cx, id, time))
       /\ IsNone(end(animator).current) /\ end(animator).area = animator.area
       /\ \A anim \in Anims :
              /\ IsNone(end_and_set(animator, anim).current)
              /\ end_and_set(animator, anim).area = animator.area

\* nothing is current and the registry still holds the entry of the Area
C8_Witness ==
    /\ IsNone(animator.current)
    /\ HasEntry(animator, cx)
    /\ \E time \in Times : ~HasEntry(animator, update_anim_track(animator, cx, time).cx)

Exhausted(now) ==
    /\ IsSome(animator.current) /\ IsNone(animator.next)
    /\ HasEntry(animator, cx) /\ ~is_nan(Entry(animator, cx).start_time)
    /\ now - Entry(animator, cx).start_time >= Duration(Unwrap(animator.current))

\* C9 as stated (exhaustion returns to Idle): an advance at or past the duration
\* of current, with nothing queued, leaves no current Anim.
C9_AsStated ==
    \A now \in Times :
        Exhausted(now) => IsNone(update_anim_track(animator, cx, now).self.current)

\* C9 amended: such an advance keeps current and the registry entry and returns
\* the local time (now - start_time) / duration, which is at least 1; a step that
\* empties current is a step of end or of end_and_set.
C9_ExhaustionKeepsCurrent ==
    /\ [](\A now \in Times :
             Exhausted(now) =>
                 LET r == update_anim_track(animator, cx, now) IN
                 /\ r.self.current = animator.current
                 /\ r.self.next = None
                 /\ r.cx.playing_anim_areas = cx.playing_anim_areas
                 /\ r.ret = Some(<<now - Entry(animator, cx).start_time,
                                   Duration(Unwrap(animator.current))>>))
    /\ [][(IsSome(animator.current) /\ IsNone(animator'.current)) =>
              /\ cx' = cx
              /\ \/ animator' = end(animator)
                 \/ \E anim \in caller.anims : animator' = end_and_set(animator, anim)]_vars

\* an Anim with nothing queued behind it has run past its duration
C9_Witness ==
    /\ \E now \in Times :
           /\ Exhausted(now)
           /\ now - Entry(animator, cx).start_time > Duration(Unwrap(animator.current))
           /\ IsSome(update_anim_track(animator, cx, now).self.current)
    /\ is_valid(animator.area, cx)

\* C10 as stated (state-machine shape): the Animator is Idle (no current, no
\* next), Playing (current, no next) or Queued (current and next); next is never
\* present without current.
C10_AsStated ==
    IsSome(animator.next) => IsSome(animator.current)

\* C11 (cancellation), as stated for a terminal current Anim and the operations
\* that are no forced end: while the current Anim is terminal, no play_anim, no
\* init and no advance (update_anim_track, calc_area) replaces or removes it.
C11_TerminalCancelProof ==
    Terminal(animator) =>
        /\ \A anim \in Anims :
               /\ play_anim(animator, cx, anim).self.current = animator.current
               /\ init(animator, cx, anim).self.current = animator.current
        /\ \A time \in Times :
               /\ update_anim_track(animator, cx, time).self.current = animator.current
               /\ calc_area(animator, cx, animator.area, time).self.current = animator.current

\* the advance at `time` yields no local time, or the Anim then current has no
\* Track of the kind bound to the identity
NoTrack(kind, id, time) ==
    LET u == update_anim_track(animator, cx, time) IN
    \/ IsNone(u.ret)
    \/ \A i \in DOMAIN Unwrap(u.self.current).tracks :
           LET track == Unwrap(u.self.current).tracks[i] IN
           ~(track.bind_to = id /\ track.kind = kind)

\* calc_K of the kind
calc_kind(kind, self, c, id, time) ==
    CASE kind = "Float" -> calc_float(self, c, id, time)
      [] kind = "Vec2" -> calc_vec2(self, c, id, time)
      [] kind = "Vec3" -> calc_vec3(self, c, id, time)
      [] kind = "Vec4" -> calc_vec4(self, c, id, time)
      [] kind = "Color" -> calc_color(self, c, id, time)

Holds(kind) ==
    \A id \in CallerIds, time \in Times :
        NoTrack(kind, id, time) =>
            calc_kind(kind, animator, cx, id, time).ret =
                last_value(kind, id, animator.last_values)

\* C12 (per-property hold): for every kind K, when the advance yields no local
\* time or current has no Track of kind K bound to the identity, calc_K returns
\* the value last_K(identity) returned just before the call.
C12_PerPropertyHold ==
    \A kind \in Kinds : Holds(kind)

\* the pairs of last_values under identities no Track of the Anim is bound to
OtherPairs(last_values, anim) ==
    SelectSeq(last_values,
              LAMBDA pair : \A i \in DOMAIN anim.tracks : anim.tracks[i].bind_to # pair[1])

\* C13 (continuity after end): after end() with an Anim current, current is empty
\* and, for every Track of the ended Anim, the last value of the Track's kind
\* and identity is the Track's final key value (the zero of the kind without
\* keys), whatever was cached before; with no Anim current, end() changes
\* nothing.
C13_ContinuityAfterEnd ==
    LET r == end(animator) IN
    IF IsSome(animator.current)
    THEN LET anim == Unwrap(animator.current) IN
         /\ r.current = None
         /\ \A i \in DOMAIN anim.tracks :
                last_value(anim.tracks[i].kind, anim.tracks[i].bind_to, r.last_values) =
                    FinalKey(anim.tracks[i])
         /\ OtherPairs(r.last_values, anim) = OtherPairs(animator.last_values, anim)
         /\ r.next = animator.next /\ r.area = animator.area
    ELSE r = animator

\* an Anim is current whose Track has a value cached that is not its final key
C13_Witness ==
    /\ IsSome(animator.current)
    /\ \E i \in DOMAIN Unwrap(animator.current).tracks :
           LET track == Unwrap(animator.current).tracks[i] IN
           /\ track.keys # <<>>
           /\ \E j \in DOMAIN animator.last_values :
                  /\ animator.last_values[j][1] = track.bind_to
                  /\ animator.last_values[j][2] # FinalKey(track)
           /\ last_value(track.kind, track.bind_to, end(animator).last_values) =
                  FinalKey(track)

\* C14 as stated: after end_and_set(anim) current is empty and, for every Track
\* of the Anim that was current, last_values holds that Track's final key value.
C14_AsStated ==
    \A anim \in Anims :
        IsSome(animator.current) =>
            LET r == end_and_set(animator, anim)
                was == Unwrap(animator.current)
            IN /\ r.current = None
               /\ \A i \in DOMAIN was.tracks :
                      Caches(r.last_values, was.tracks[i].bind_to, FinalKey(was.tracks[i]))

\* C14 amended: after end_and_set(anim) current is empty and, for every Track of
\* the argument anim, last_values holds that Track's final key value; the pairs
\* under the other identities, those of the Anim that was current among them,
\* are as before the call.
C14_EndAndSet ==
    \A anim \in Anims :
        LET r == end_and_set(animator, anim) IN
        /\ r.current = None
        /\ \A i \in DOMAIN anim.tracks :
               Caches(r.last_values, anim.tracks[i].bind_to, FinalKey(anim.tracks[i]))
        /\ OtherPairs(r.last_values, anim) = OtherPairs(animator.last_values, anim)
        /\ r.next = animator.next /\ r.area = animator.area

\* an Anim is current with a value cached for its Track that is not the final
\* key, and the caller ends it with another Anim that has no Track of that
\* identity: the cached value stays
C14_Witness ==
    /\ IsSome(animator.current)
    /\ \E anim \in caller.anims, i \in DOMAIN Unwrap(animator.current).tracks :
           LET track == Unwrap(animator.current).tracks[i]
               r == end_and_set(animator, anim)
           IN /\ \A k \in DOMAIN anim.tracks : anim.tracks[k].bind_to # track.bind_to
              /\ track.keys # <<>>
              /\ \E j \in DOMAIN animator.last_values :
                     /\ animator.last_values[j][1] = track.bind_to
                     /\ animator.last_values[j][2] # FinalKey(track)
              /\ ~Caches(r.last_values, track.bind_to, FinalKey(track))
              /\ r.current = None

\* C15 (init rebuilds on a generation change only): with the Animator's
\* live_update_id equal to the context's, init changes nothing; with another, it
\* adopts the context's id, sets total_time of the Area's registry entry to 0 if
\* there is one, caches the final key value of every Track of the definition,
\* and leaves current and next as they were; a second init at that generation
\* changes nothing.
C15_InitOnGenerationChange ==
    \A anim \in Anims :
        LET r == init(animator, cx, anim) IN
        IF animator.live_update_id = cx.live_update_id
        THEN r.self = animator /\ r.cx = cx
        ELSE /\ r.self.live_update_id = cx.live_update_id
             /\ r.self.current = animator.current
             /\ r.self.next = animator.next
             /\ r.self.area = animator.area
             /\ \A i \in DOMAIN anim.tracks :
                    Caches(r.self.last_values, anim.tracks[i].bind_to,
                           FinalKey(anim.tracks[i]))
             /\ OtherPairs(r.self.last_values, anim) = OtherPairs(animator.last_values, anim)
             /\ DOMAIN r.cx.playing_anim_areas = DOMAIN cx.playing_anim_areas
             /\ \A a \in DOMAIN cx.playing_anim_areas :
                    r.cx.playing_anim_areas[a] =
                        IF a = animator.area
                        THEN [cx.playing_anim_areas[a] EXCEPT !.total_time = 0]
                        ELSE cx.playing_anim_areas[a]
             /\ [r.cx EXCEPT !.playing_anim_areas = cx.playing_anim_areas] = cx
             /\ \A again \in Anims :
                    LET r2 == init(r.self, r.cx, again) IN
                    r2.self = r.self /\ r2.cx = r.cx

\* the generation changed while an Anim plays on an Area with a running entry,
\* and the caller's definition has a Track whose final key is not cached
C15_Witness ==
    /\ animator.live_update_id # cx.live_update_id
    /\ IsSome(animator.current)
    /\ HasEntry(animator, cx)
    /\ Entry(animator, cx).total_time > 0
    /\ \E anim \in caller.anims :
           /\ \E i \in DOMAIN anim.tracks :
                  ~Caches(animator.last_values, anim.tracks[i].bind_to,
                          FinalKey(anim.tracks[i]))
           /\ Entry(animator, init(animator, cx, anim).cx).total_time = 0

\* the Areas handed to calc_area: the Animator's own and the one of the current
\* redraw cycle
CalcAreas == {animator.area} \cup AreaInputs(cx)

\* C16 (calc_area binding): when the advance yields a local time, calc_area
\* computes for every Track of current, at that one local time, a value from
\* the value cached under the Track's own identity, caches it under that
\* identity and hands that same value to the typed write of the Track's kind on
\* the given Area; no other pair and no other buffer cell changes.  When the
\* advance yields no local time, last_values and the buffer stay as they were.
C16_CalcAreaBinding ==
    \A area \in CalcAreas, time \in Times :
        LET u == update_anim_track(animator, cx, time)
            r == calc_area(animator, cx, area, time)
        IN IF IsSome(u.ret)
           THEN LET anim == Unwrap(u.self.current)
                    values == [i \in DOMAIN anim.tracks |->
                                  compute_track(anim.tracks[i].kind, Unwrap(u.ret),
                                                anim.tracks[i].keys, anim.tracks[i].cut_init,
                                                last_value(anim.tracks[i].kind,
                                                           anim.tracks[i].bind_to,
                                                           animator.last_values))]
                    written == [i \in DOMAIN anim.tracks |->
                                   write_kind(anim.tracks[i].kind, area, u.cx,
                                              anim.tracks[i].bind_to, values[i])]
                IN /\ r.self.current = u.self.current /\ r.self.next = u.self.next
                   /\ r.cx.playing_anim_areas = u.cx.playing_anim_areas
                   /\ \A i \in DOMAIN anim.tracks :
                          Caches(r.self.last_values, anim.tracks[i].bind_to, values[i])
                   /\ OtherPairs(r.self.last_values, anim) =
                          OtherPairs(animator.last_values, anim)
                   /\ \A k \in DOMAIN cx.instance :
                          /\ \A i \in DOMAIN anim.tracks :
                                 written[i].instance[k] # cx.instance[k] =>
                                     r.cx.instance[k] = written[i].instance[k]
                          /\ (\A i \in DOMAIN anim.tracks :
                                  written[i].instance[k] = cx.instance[k]) =>
                                     r.cx.instance[k] = cx.instance[k]
                   /\ r.cx.instance_dirty =
                          (cx.instance_dirty \/
                               \E i \in DOMAIN anim.tracks : written[i].instance_dirty)
           ELSE /\ r.self.last_values = animator.last_values
                /\ r.cx.instance = cx.instance
                /\ r.cx.instance_dirty = cx.instance_dirty
                /\ r.cx.paint_dirty = cx.paint_dirty

\* an Anim with two Tracks is current on a valid Instance area and a calc_area
\* of the caller changes both the cached values and the buffer
C16_Witness ==
    /\ caller.calc_area
    /\ IsSome(animator.current)
    /\ Len(Unwrap(animator.current).tracks) >= 2
    /\ is_valid(animator.area, cx)
    /\ \E time \in Times :
           LET r == calc_area(animator, cx, animator.area, time) IN
           /\ r.cx.instance # cx.instance
           /\ r.self.last_values # animator.last_values

\* C17 (idempotence): a second calc_area with the same Area and the same now
\* computes the values the first one computed and leaves current, next,
\* last_values, the registry and the instance buffer as the first one left them.
C17_CalcAreaIdempotent ==
    \A area \in CalcAreas, time \in Times :
        LET first == calc_area(animator, cx, area, time)
            second == calc_area(first.self, first.cx, area, time)
        IN /\ update_anim_track(first.self, first.cx, time).ret =
                  update_anim_track(animator, cx, time).ret
           /\ second.self = first.self
           /\ second.cx.playing_anim_areas = first.cx.playing_anim_areas
           /\ second.cx.instance = first.cx.instance

\* a calc_area of the caller promotes a queued Anim and changes both the cached
\* values and the buffer of a valid Area
C17_Witness ==
    /\ caller.calc_area
    /\ IsSome(animator.next)
    /\ is_valid(animator.area, cx)
    /\ \E time \in Times :
           LET first == calc_area(animator, cx, animator.area, time) IN
           /\ IsNone(first.self.next)
           /\ first.cx.playing_anim_areas # cx.playing_anim_areas
           /\ first.cx.instance # cx.instance
           /\ first.self.last_values # animator.last_values

\* the Areas a widget can hold: Empty, All, and every Area handed out in a
\* redraw cycle up to the current one
AreaSamples(c) ==
    {Empty, All, animator.area}
    \cup { View(g) : g \in 0..c.redraw_id }
    \cup { Instance(0, 2, g) : g \in 0..c.redraw_id }
    \cup { Instance(c.shader.total_slots, 1, g) : g \in 0..c.redraw_id }
    \cup { Instance(0, 0, g) : g \in 0..c.redraw_id }

\* C18 as stated: is_valid of the Area a widget holds is true exactly when the
\* Area is an Instance or View whose redraw_id is the view's current one.
C18_AsStated ==
    is_valid(animator.area, cx) =
        (/\ animator.area.kind \in {"Instance", "View"}
         /\ animator.area.redraw_id = cx.redraw_id)

\* C18 (Area validity): is_valid is true for a View area exactly when its
\* redraw_id is the view's current one, for an Instance area exactly when in
\* addition its instance_count is not zero, and false for Empty and All.
C18_AreaValidity ==
    \A area \in AreaSamples(cx) :
        is_valid(area, cx) =
            CASE area.kind = "View" -> area.redraw_id = cx.redraw_id
              [] area.kind = "Instance" ->
                    area.redraw_id = cx.redraw_id /\ area.instance_count # 0
              [] OTHER -> FALSE

\* after a redraw the widget holds an Instance area of the current cycle that
\* spans no instance, and a valid and a stale one exist beside it
C18_Witness ==
    /\ cx.redraw_id > 0
    /\ animator.area.kind = "Instance"
    /\ animator.area.instance_count = 0
    /\ animator.area.redraw_id = cx.redraw_id
    /\ ~is_valid(animator.area, cx)
    /\ is_valid(Instance(0, 2, cx.redraw_id), cx)
    /\ ~is_valid(Instance(0, 2, 0), cx)

\* the kinds of typed write and typed read of an Area, and the property
\* identities tried: those of the shader's instance properties and user
\* uniforms, and two the shader does not have
WriteKinds == {"Float", "Vec2", "Vec3", "Vec4", "Color", "Mat4", "UniformFloat", "UniformVec3"}
ReadKinds == {"Float", "Vec2", "Vec3", "Vec4", "Color", "Mat4"}
AreaIds == 0..9

\* the Area is an Instance or View of a redraw cycle that is over
Stale(area, c) == area.kind \in {"Instance", "View"} /\ c.redraw_id # area.redraw_id

\* C19 (stale-handle safety): through an Area whose redraw_id differs from the
\* view's, every typed write leaves the instance buffer, the user uniforms and
\* the three dirty flags as they were, and every typed read returns the zero of
\* its kind, whatever the property identity.
C19_StaleHandleSafety ==
    \A area \in AreaSamples(cx) :
        Stale(area, cx) =>
            /\ \A kind \in WriteKinds, id \in AreaIds :
                   LET c == write_any(kind, area, cx, id, WriteValue(kind)) IN
                   /\ c.instance = cx.instance
                   /\ c.user_uniforms = cx.user_uniforms
                   /\ c.instance_dirty = cx.instance_dirty
                   /\ c.uniforms_dirty = cx.uniforms_dirty
                   /\ c.paint_dirty = cx.paint_dirty
            /\ \A kind \in ReadKinds, id \in AreaIds :
                   read_kind(kind, area, cx, id) = Zero(kind)

\* the widget wrote through its Instance area, the buffers were painted, and a
\* redraw made the Area stale: the cells it would read are not zero and the
\* flags it would set are clear
C19_Witness ==
    /\ Stale(animator.area, cx)
    /\ animator.area.kind = "Instance"
    /\ animator.area.instance_count > 0
    /\ ~cx.instance_dirty /\ ~cx.uniforms_dirty /\ ~cx.paint_dirty
    /\ \E p \in caller.props :
           /\ p[1] \in ReadKinds
           /\ LET offset == get_instance_offset(animator.area, cx, p[2],
                                                IF p[1] = "Color" THEN "Vec4" ELSE p[1])
              IN /\ IsSome(offset)
                 /\ cx.instance[animator.area.instance_offset + Unwrap(offset) + 1] # 0

\* C20 (geometry queries degrade): when is_valid of the Area a widget holds is
\* false, get_rect returns the zero Rect and get_scroll_pos and
\* get_local_scroll_pos return the zero Vec2.
C20_GeometryDegrades ==
    ~is_valid(animator.area, cx) =>
        /\ get_rect(animator.area, cx) = Rect(0, 0, 0, 0)
        /\ get_scroll_pos(animator.area, cx) = Vec2(0, 0)
        /\ get_local_scroll_pos(animator.area, cx) = Vec2(0, 0)

\* the type the shader must have for the property of an accessor of the kind,
\* and the number of slots of the kind
AccessTy(kind) == IF kind = "Color" THEN "Vec4" ELSE kind
Slots(kind) == Len(Zero(kind).v)

\* the shader has the identity as an instance property of the accessor's type
Present(kind, c, id) ==
    id \in DOMAIN c.shader.props /\ c.shader.props[id].ty = AccessTy(kind)

\* the components of the value, as a set
Components(value) == { value.v[j] : j \in DOMAIN value.v }

\* C21 (typed write broadcast): a typed write of a kind through a valid
\* Instance area (offset o, count n), the property being at offset p with the
\* accessor's type, puts the components of the value in the cells
\* o + p + i * total_slots onwards of every instance i < n, leaves every other
\* cell as it was and sets instance_dirty and paint_dirty.
C21_WriteBroadcast ==
    \A area \in AreaSamples(cx), kind \in ReadKinds, id \in AreaIds :
        (area.kind = "Instance" /\ is_valid(area, cx) /\ Present(kind, cx, id)) =>
            LET value == WriteValue(kind)
                c == write_any(kind, area, cx, id, value)
                p == cx.shader.props[id].offset
                cells(i) == { area.instance_offset + p + i * cx.shader.total_slots + j + 1 :
                                  j \in 0..(Slots(kind) - 1) }
                written == UNION { cells(i) : i \in 0..(area.instance_count - 1) }
            IN /\ \A i \in 0..(area.instance_count - 1) :
                      { c.instance[k] : k \in cells(i) } = Components(value)
               /\ \A k \in DOMAIN cx.instance \ written : c.instance[k] = cx.instance[k]
               /\ c.instance_dirty /\ c.paint_dirty
               /\ c.user_uniforms = cx.user_uniforms

\* the widget has written through its valid two-instance Area: both instances
\* hold the value, the flags are set, and the rest of the buffer is zero
C21_Witness ==
    /\ animator.area.kind = "Instance"
    /\ animator.area.instance_count = 2
    /\ is_valid(animator.area, cx)
    /\ cx.instance_dirty /\ cx.paint_dirty
    /\ \E p \in caller.props :
           /\ p[1] \in ReadKinds /\ Present(p[1], cx, p[2])
           /\ LET o == cx.shader.props[p[2]].offset IN
              /\ cx.instance[o + 1] # 0
              /\ cx.instance[o + cx.shader.total_slots + 1] = cx.instance[o + 1]
              /\ cx.instance[o + Slots(p[1]) + 1] = 0

\* the shader has the identity as a user uniform of the accessor's type
UniformTy(kind) == IF kind = "UniformFloat" THEN "Float" ELSE "Vec3"
UniformPresent(kind, c, id) ==
    id \in DOMAIN c.shader.user_uniform_props
        /\ c.shader.user_uniform_props[id].ty = UniformTy(kind)

\* C22 (missing property degrades silently): when the shader has no property
\* for the identity or has it with another type than the accessor asks for, and
\* whenever the Area is Empty, All or a View, a typed write changes nothing at
\* all (buffer, uniforms, dirty flags) and a typed read returns the zero of its
\* kind.
C22_MissingProperty ==
    \A area \in AreaSamples(cx), id \in AreaIds :
        /\ \A kind \in ReadKinds :
               (area.kind # "Instance" \/ ~Present(kind, cx, id)) =>
                   /\ write_any(kind, area, cx, id, WriteValue(kind)) = cx
                   /\ read_kind(kind, area, cx, id) = Zero(kind)
        /\ \A kind \in WriteKinds \ ReadKinds :
               (area.kind # "Instance" \/ ~UniformPresent(kind, cx, id)) =>
                   write_any(kind, area, cx, id, WriteValue(kind)) = cx

\* the widget holds a valid Area, the flags are clear after a paint, and the
\* cells of a property it wrote are not zero: an accessor of another kind on
\* that identity finds the property with the wrong type
C22_Witness ==
    /\ animator.area.kind = "Instance"
    /\ is_valid(animator.area, cx)
    /\ ~cx.instance_dirty /\ ~cx.paint_dirty
    /\ \E id \in DOMAIN cx.shader.props, kind \in ReadKinds :
           /\ ~Present(kind, cx, id)
           /\ cx.instance[animator.area.instance_offset + cx.shader.props[id].offset + 1] # 0
           /\ read_kind(kind, animator.area, cx, id) = Zero(kind)

\* the first cell of the property of the identity in instance i of the Area
\* (buffer cells are numbered from 1 here)
Cell(area, c, id, i) ==
    area.instance_offset + c.shader.props[id].offset + i * c.shader.total_slots + 1

\* C23 (Vec2 storage order): after write_vec2 of v through a valid Instance
\* area with the property present, in every instance the Area spans the first
\* slot of the property holds v.y and the second holds v.x.
C23_Vec2StorageOrder ==
    \A area \in AreaSamples(cx), id \in AreaIds, v \in {Vec2(1, 2), Vec2(9, 0)} :
        (area.kind = "Instance" /\ is_valid(area, cx) /\ Present("Vec2", cx, id)) =>
            LET c == write_vec2(area, cx, id, v) IN
            \A i \in 0..(area.instance_count - 1) :
                /\ c.instance[Cell(area, cx, id, i)] = v.v[2]
                /\ c.instance[Cell(area, cx, id, i) + 1] = v.v[1]

\* the widget has written the Vec2 (1, 2) through its valid two-instance Area:
\* the two slots of both instances hold 2 and 1
C23_Witness ==
    /\ animator.area = Instance(0, 2, cx.redraw_id)
    /\ \E id \in PropIds("Vec2") :
           \A i \in 0..1 :
               /\ cx.instance[Cell(animator.area, cx, id, i)] = 2
               /\ cx.instance[Cell(animator.area, cx, id, i) + 1] = 1

\* C24 (natural order for the other kinds): after write_vec3, write_vec4 or
\* write_color of a value through the valid Instance area a widget holds, with
\* the property present, in every instance the Area spans the consecutive slots of the
\* property hold the components of the value in their own order.
C24_NaturalOrder ==
    \A area \in {animator.area}, id \in AreaIds, kind \in {"Vec3", "Vec4", "Color"} :
        (area.kind = "Instance" /\ is_valid(area, cx) /\ Present(kind, cx, id)) =>
            LET value == WriteValue(kind)
                c == write_any(kind, area, cx, id, value)
            IN \A i \in 0..(area.instance_count - 1), j \in 0..(Slots(kind) - 1) :
                   c.instance[Cell(area, cx, id, i) + j] = value.v[j + 1]

\* C25 (read is symmetric to write): for every kind, on the valid Instance area
\* a widget holds and with the property present, the typed read right after the
\* typed write of a value returns that value.
C25_ReadAfterWrite ==
    \A id \in AreaIds, kind \in ReadKinds :
        (/\ animator.area.kind = "Instance"
         /\ is_valid(animator.area, cx)
         /\ Present(kind, cx, id)) =>
            read_kind(kind, animator.area,
                      write_any(kind, animator.area, cx, id, WriteValue(kind)), id)
                = WriteValue(kind)

\* no Anim, or an Anim without tracks
ZeroTrack(o) == IsNone(o) \/ Len(Unwrap(o).tracks) = 0

\* C26 (zero-track degeneracy): while an Anim without tracks is current and
\* next is absent or has no tracks, no operation of the Animator given an Anim
\* without tracks changes last_values: not init, play_anim, end, end_and_set,
\* calc_area, nor the per-property calc of any kind.
C26_ZeroTrackDegeneracy ==
    (IsSome(animator.current) /\ ZeroTrack(animator.current)
         /\ ZeroTrack(animator.next)) =>
        /\ \A anim \in { a \in caller.anims : Len(a.tracks) = 0 } :
               /\ init(animator, cx, anim).self.last_values = animator.last_values
               /\ play_anim(animator, cx, anim).self.last_values = animator.last_values
               /\ end_and_set(animator, anim).last_values = animator.last_values
        /\ end(animator).last_values = animator.last_values
        /\ \A time \in Times :
               /\ calc_area(animator, cx, animator.area, time).self.last_values
                      = animator.last_values
               /\ \A p \in caller.props :
                      calc_kind(p[1], animator, cx, p[2], time).self.last_values
                          = animator.last_values

\* last_values `after` keeps every pair of `before` in its place, with the value
\* it had unless the Anim has a Track bound to its identity
Persists(before, after, anim) ==
    /\ Len(after) >= Len(before)
    /\ \A i \in DOMAIN before :
           /\ after[i][1] = before[i][1]
           /\ (\A j \in DOMAIN anim.tracks : anim.tracks[j].bind_to # before[i][1])
                  => after[i] = before[i]

\* C27 (last_values persists across plays): play_anim, end_and_set and init of
\* any Anim, and end, remove no pair from last_values and leave the value of
\* every identity that has no Track in that Anim (for end: in the ended current)
\* as it was.
C27_LastValuesPersist ==
    /\ \A anim \in caller.anims :
           /\ Persists(animator.last_values,
                       play_anim(animator, cx, anim).self.last_values, anim)
           /\ Persists(animator.last_values,
                       end_and_set(animator, anim).last_values, anim)
           /\ Persists(animator.last_values,
                       init(animator, cx, anim).self.last_values, anim)
    /\ IsSome(animator.current) =>
           Persists(animator.last_values, end(animator).last_values,
                    Unwrap(animator.current))
    /\ IsNone(animator.current) => end(animator).last_values = animator.last_values

\* last_values holds a pair of an identity the current Anim has a Track for and
\* a pair of an identity it has none for, and an end changes the first; the
\* live definitions have changed, so that an init rebuilds
C27_Witness ==
    /\ IsSome(animator.current)
    /\ animator.live_update_id # cx.live_update_id
    /\ \E i \in DOMAIN animator.last_values :
           \A j \in DOMAIN Unwrap(animator.current).tracks :
               Unwrap(animator.current).tracks[j].bind_to # animator.last_values[i][1]
    /\ end(animator).last_values # animator.last_values
    /\ Len(end(animator).last_values) = Len(animator.last_values)

\* the Area has a registry entry whose start_time has been stamped
Stamped(self, c) == HasEntry(self, c) /\ ~is_nan(Entry(self, c).start_time)

\* the advance at the time promotes next
Promotes(self, c, time) ==
    /\ IsSome(self.current) /\ IsSome(self.next)
    /\ time - Entry(self, c).start_time >= play_total_time(Unwrap(self.current).play)

\* the play of the Anim replaces current at once on the entry of the Area
TakesOver(self, c, anim) ==
    /\ ~play_anim_locked(self)
    /\ is_valid(self.area, c)
    /\ HasEntry(self, c)
    /\ (play_cut(anim.play) \/ IsNone(self.current))

\* C28 as stated: once start_time is stamped, a play changes it only if the
\* Anim played has the Cut policy.
C28_AsStated ==
    Stamped(animator, cx) =>
        \A anim \in caller.anims :
            LET r == play_anim(animator, cx, anim) IN
            Entry(r.self, r.cx).start_time # Entry(animator, cx).start_time
                => play_cut(anim.play)

\* C28 (start_time stamping): with current present and an entry whose
\* start_time is NaN, an advance makes start_time the now of that advance.  Once
\* stamped, an advance changes start_time only when it promotes next, by the
\* finished duration; a play changes it only when it replaces current at once
\* (a Cut play, or any play while no Anim is current), back to NaN; init leaves
\* it alone (end and end_and_set do not reach the registry).
C28_StartTimeStamping ==
    /\ (HasEntry(animator, cx) /\ IsSome(animator.current)
            /\ is_nan(Entry(animator, cx).start_time)) =>
           \A time \in Times :
               LET u == update_anim_track(animator, cx, time) IN
               Entry(u.self, u.cx).start_time =
                   IF Promotes(animator, [cx EXCEPT !.playing_anim_areas[animator.area]
                                                        .start_time = time], time)
                   THEN time + play_total_time(Unwrap(animator.current).play)
                   ELSE time
    /\ (Stamped(animator, cx) /\ IsSome(animator.current)) =>
           \A time \in Times :
               LET u == update_anim_track(animator, cx, time) IN
               Entry(u.self, u.cx).start_time =
                   IF Promotes(animator, cx, time)
                   THEN Entry(animator, cx).start_time
                            + play_total_time(Unwrap(animator.current).play)
                   ELSE Entry(animator, cx).start_time
    /\ Stamped(animator, cx) =>
           \A anim \in caller.anims :
                  LET r == play_anim(animator, cx, anim) IN
                  /\ HasEntry(r.self, r.cx)
                  /\ Entry(r.self, r.cx).start_time =
                         IF TakesOver(animator, cx, anim) THEN NaN
                         ELSE Entry(animator, cx).start_time
                  /\ Entry(animator, init(animator, cx, anim).cx).start_time
                         = Entry(animator, cx).start_time

\* the entry is stamped, no Anim is current after an end, and a play of a Chain
\* Anim of the caller takes over and sets start_time back to NaN
C28_Witness ==
    /\ Stamped(animator, cx)
    /\ IsNone(animator.current)
    /\ \E anim \in caller.anims :
           /\ ~play_cut(anim.play)
           /\ LET r == play_anim(animator, cx, anim) IN
              /\ r.self.current = Some(anim)
              /\ is_nan(Entry(r.self, r.cx).start_time)

\* the local time is at or past the last key time of the Track
AtOrPastLastKey(track, t) ==
    Len(track.keys) > 0 /\ FracLeq(track.keys[Len(track.keys)][1], t)

\* calc_K of the Track's kind and identity, and calc_area, at the time, both
\* return and cache the last key's value, which is what end() snapshots
CompletesAsEnd(i, time) ==
    LET u == update_anim_track(animator, cx, time)
        track == Unwrap(u.self.current).tracks[i]
        r == calc_kind(track.kind, animator, cx, track.bind_to, time)
        a == calc_area(animator, cx, animator.area, time)
    IN /\ r.ret = track.keys[Len(track.keys)][2]
       /\ Caches(r.self.last_values, track.bind_to, r.ret)
       /\ Caches(a.self.last_values, track.bind_to, r.ret)
       /\ Caches(end(u.self).last_values, track.bind_to, r.ret)

\* C29 (natural completion agrees with forced end): for every Track of current
\* with a key, a calc of the Track's kind, or calc_area, at a local time at or
\* past the Track's last key time returns and caches the last key's value, the
\* value end() snapshots.
C29_NaturalCompletion ==
    \A time \in Times :
        LET u == update_anim_track(animator, cx, time) IN
        IsSome(u.ret) =>
            \A i \in DOMAIN Unwrap(u.self.current).tracks :
                AtOrPastLastKey(Unwrap(u.self.current).tracks[i], Unwrap(u.ret))
                    => CompletesAsEnd(i, time)

\* a Track of current is in mid-flight with a cached value that is not its last
\* key's, and an advance of the caller takes it to or past its last key
C29_Witness ==
    /\ Stamped(animator, cx)
    /\ IsSome(animator.current)
    /\ \E time \in Times, i \in DOMAIN Unwrap(animator.current).tracks :
           LET u == update_anim_track(animator, cx, time)
               track == Unwrap(animator.current).tracks[i]
           IN /\ IsSome(u.ret)
              /\ u.self.current = animator.current
              /\ Len(track.keys) > 1
              /\ AtOrPastLastKey(track, Unwrap(u.ret))
              /\ IsSome(find_last(animator.last_values, track.bind_to))
              /\ ~Caches(animator.last_values, track.bind_to, FinalKey(track))
              /\ CompletesAsEnd(i, time)

\* C30 (set_rect respects staleness): set_rect through the Area a widget holds,
\* when the Area is an Instance or View of a redraw cycle that is over, writes
\* nothing: the instance buffer and the rect of the view stay as they were.
C30_SetRectStale ==
    Stale(animator.area, cx) =>
        \A rect \in {Rect(1, 2, 3, 4), Rect(0, 0, 5, 5)} :
            LET c == set_rect(animator.area, cx, rect) IN
            /\ c.instance = cx.instance
            /\ c.rect = cx.rect

\* ------------------------------------------------------------------ C31
\* the pairs of last_values that carry the identity
EntriesOf(last_values, id) == { i \in DOMAIN last_values : last_values[i][1] = id }

\* the identities the caller's Anims and properties bind to, and one nothing
\* binds to
CacheIds ==
    UNION { { anim.tracks[t].bind_to : t \in DOMAIN anim.tracks } : anim \in caller.anims }
    \cup CallerIds \cup {0}

Unique(last_values) ==
    \A i \in DOMAIN last_values :
        EntriesOf(last_values, last_values[i][1]) = {i}

\* the values a set_last_* call may carry
LastValueSamples == { WriteValue(kind) : kind \in Kinds } \cup { Zero(kind) : kind \in Kinds }

\* C31: last_values holds at most one pair per property identity in every
\* state the callers reach through init, play_anim, end, end_and_set,
\* set_anim_as_last_values, set_last_* and calc_*, and after each of init,
\* play_anim, end_and_set with any Anim, end, set_last_* with any kind and
\* calc_area called next, also when the kind of the call differs from the kind
\* cached for the identity
C31_UniqueCacheEntries ==
    /\ Unique(animator.last_values)
    /\ \A anim \in Anims :
          /\ Unique(init(animator, cx, anim).self.last_values)
          /\ Unique(play_anim(animator, cx, anim).self.last_values)
          /\ Unique(end_and_set(animator, anim).last_values)
    /\ Unique(end(animator).last_values)
    /\ \A id \in CacheIds, value \in LastValueSamples :
          Unique(set_last_value(id, value, animator.last_values))
    /\ \A time \in Times :
          Unique(calc_area(animator, cx, animator.area, time).self.last_values)

\* an identity is cached under one kind while the current Anim animates it with
\* a Track of another kind
C31_Witness ==
    /\ IsSome(animator.current)
    /\ \E i \in DOMAIN animator.last_values :
          \E t \in DOMAIN Unwrap(animator.current).tracks :
             /\ Unwrap(animator.current).tracks[t].bind_to = animator.last_values[i][1]
             /\ Unwrap(animator.current).tracks[t].kind # animator.last_values[i][2].kind

\* ------------------------------------------------------------------ C32
\* C32: the total_time of the registry entry of the Animator's Area is never
\* negative, the Anims played all having a duration of 0 or more
C32_TotalTimeNonNegative ==
    HasEntry(animator, cx) => Entry(animator, cx).total_time >= 0

\* ------------------------------------------------------------------ C33
\* nothing is playing on a valid Area whose registry entry is still there
IdleOnEntry(self, c) ==
    /\ is_valid(self.area, c)
    /\ HasEntry(self, c)
    /\ IsNone(self.current)

\* C33: on a valid Area with a registry entry and no current, play_anim of an
\* Anim with Chain policy makes the Anim current at once, leaves next empty,
\* resets start_time to NaN and sets total_time to the duration of the Anim
C33_ChainOnIdleCuts ==
    \A anim \in Anims :
        (IdleOnEntry(animator, cx) /\ ~anim.play.cut) =>
            LET r == play_anim(animator, cx, anim) IN
            /\ r.self.current = Some(anim)
            /\ r.self.next = None
            /\ HasEntry(r.self, r.cx)
            /\ is_nan(Entry(r.self, r.cx).start_time)
            /\ Entry(r.self, r.cx).total_time = Duration(anim)

\* current was ended with an Anim still queued and the entry stamped with a
\* total that is not the duration of the Chain Anim the caller plays next
C33_Witness ==
    /\ IdleOnEntry(animator, cx)
    /\ IsSome(animator.next)
    /\ Stamped(animator, cx)
    /\ \E anim \in caller.anims :
          /\ ~anim.play.cut
          /\ Entry(animator, cx).total_time # Duration(anim)

\* ------------------------------------------------------------------ C34
\* play_anim(C) has put C in the place of the queued Anim: current is still A,
\* the total is that of A and C, and whatever the time of the next advance it
\* is A or C that plays
NewestWins(r, A, C) ==
    /\ r.self.current = Some(A)
    /\ r.self.next = Some(C)
    /\ HasEntry(r.self, r.cx)
    /\ Entry(r.self, r.cx).total_time = Duration(A) + Duration(C)
    /\ \A time \in Times :
          update_anim_track(r.self, r.cx, time).self.current \in {Some(A), Some(C)}

\* C34 as stated: with an Anim B queued behind current A, play_anim(C) with
\* Chain policy replaces B by C as next and sets total_time to
\* A.duration + C.duration
C34_AsStated ==
    \A C \in Anims :
        (IsSome(animator.current) /\ IsSome(animator.next) /\ ~C.play.cut) =>
            NewestWins(play_anim(animator, cx, C), Unwrap(animator.current), C)

\* C34 amended: the same on a valid Area whose registry entry exists, when the
\* current Anim A is not terminal
C34_NewestWins ==
    \A C \in Anims :
        (/\ IsSome(animator.current) /\ IsSome(animator.next) /\ ~C.play.cut
         /\ is_valid(animator.area, cx) /\ HasEntry(animator, cx)
         /\ ~Terminal(animator)) =>
            NewestWins(play_anim(animator, cx, C), Unwrap(animator.current), C)

\* B is queued behind a non-terminal A on a valid Area, and the caller chains
\* an Anim C that is neither A nor B and does not last as long as B
C34_Witness ==
    /\ IsSome(animator.current) /\ IsSome(animator.next)
    /\ is_valid(animator.area, cx) /\ HasEntry(animator, cx)
    /\ ~Terminal(animator)
    /\ \E C \in caller.anims :
          /\ ~C.play.cut
          /\ C # Unwrap(animator.next)
          /\ C # Unwrap(animator.current)
          /\ Duration(C) # Duration(Unwrap(animator.next))

\* ------------------------------------------------------------------ C35
\* C35: a per-property calc of kind K never changes the value the cache returns
\* for the identity under another kind K'
C35_KindsDoNotClobber ==
    \A K \in Kinds, id \in CacheIds, time \in Times :
        LET r == calc_kind(K, animator, cx, id, time) IN
        \A other \in Kinds \ {K} :
            last_value(other, id, r.self.last_values)
                = last_value(other, id, animator.last_values)

\* ------------------------------------------------------------------ C36
\* the Tracks both evaluations look at: those of the Anim that is current once
\* the advance of the call has run
TracksAt(time) ==
    LET u == update_anim_track(animator, cx, time) IN
    IF IsSome(u.self.current)
    THEN { Unwrap(u.self.current).tracks[i] : i \in DOMAIN Unwrap(u.self.current).tracks }
    ELSE {}

\* both calls leave current, next and the registry in the same state
SameProgress(r, a) ==
    /\ r.self.current = a.self.current
    /\ r.self.next = a.self.next
    /\ r.cx.playing_anim_areas = a.cx.playing_anim_areas

\* C36: from the same Animator and registry state and at the same now, for
\* every Track of current, the per-property calc of the Track's kind returns
\* the value calc_area caches for the Track's identity, and both calls leave
\* current, next and the registry entry in the same state; calc_area caches
\* values exactly when the advance yields a local time
C36_PerPropertyBulkAgree ==
    \A time \in Times :
        LET a == calc_area(animator, cx, animator.area, time)
            u == update_anim_track(animator, cx, time)
        IN /\ \A track \in TracksAt(time) :
                 LET r == calc_kind(track.kind, animator, cx, track.bind_to, time) IN
                 /\ SameProgress(r, a)
                 /\ IsSome(u.ret) => Caches(a.self.last_values, track.bind_to, r.ret)
           /\ IsNone(u.ret) => a.self.last_values = animator.last_values

\* at some now the advance yields a local time for an Anim of two Tracks, and
\* the value of one of them is neither the cached value nor the kind's default
C36_Witness ==
    \E time \in Times :
        /\ IsSome(update_anim_track(animator, cx, time).ret)
        /\ Cardinality(TracksAt(time)) >= 2
        /\ \E track \in TracksAt(time) :
              calc_kind(track.kind, animator, cx, track.bind_to, time).ret
                  \notin { Zero(track.kind),
                           last_value(track.kind, track.bind_to, animator.last_values) }

\* ------------------------------------------------------------------ C37
\* C37: a second update_anim_track at the now of the one before it, with no
\* play, end or init in between, changes nothing in current, next or the
\* registry and returns the same local time; a per-property calc issued at that
\* now after the first advance finds the same current, next and registry
C37_AdvanceIdempotent ==
    \A time \in Times :
        LET first == update_anim_track(animator, cx, time)
            second == update_anim_track(first.self, first.cx, time)
        IN /\ second.self = first.self
           /\ second.cx = first.cx
           /\ second.ret = first.ret
           /\ \A K \in Kinds, id \in CacheIds :
                 LET r == calc_kind(K, first.self, first.cx, id, time) IN
                 /\ r.self.current = first.self.current
                 /\ r.self.next = first.self.next
                 /\ r.cx.playing_anim_areas = first.cx.playing_anim_areas

\* an Anim is queued and the entry stamped, and at some now the advance
\* promotes it and returns a local time past the start of the promoted Anim
C37_Witness ==
    \E time \in Times :
        /\ Stamped(animator, cx)
        /\ Promotes(animator, cx, time)
        /\ LET first == update_anim_track(animator, cx, time) IN
           /\ first.self.current = animator.next
           /\ IsSome(first.ret) /\ Unwrap(first.ret)[1] > 0

\* ------------------------------------------------------------------ C38
\* an Anim is current and the registry has no entry for the Animator's Area
NoEntry(self, c) == IsSome(self.current) /\ ~HasEntry(self, c)

\* C38: while current is present and the registry holds no entry for the
\* Animator's Area, at every now update_anim_track returns no local time and
\* changes neither the Animator nor the registry, every per-property calc
\* returns the cached value of its kind, and calc_area writes nothing and
\* changes nothing; the Animator is in the same situation after each of these
\* calls, so this lasts until play_anim, end or end_and_set is called
C38_NoProgressWithoutEntry ==
    NoEntry(animator, cx) =>
        \A time \in Times :
            LET u == update_anim_track(animator, cx, time)
                a == calc_area(animator, cx, animator.area, time)
            IN /\ IsNone(u.ret) /\ u.self = animator /\ u.cx = cx
               /\ a.self = animator /\ a.cx = cx
               /\ \A K \in Kinds, id \in CacheIds :
                     LET r == calc_kind(K, animator, cx, id, time) IN
                     /\ r.ret = last_value(K, id, animator.last_values)
                     /\ r.cx = cx
                     /\ NoEntry(r.self, r.cx)

\* ------------------------------------------------------------------ f32 of the avatar states
\* an f32 in [0, 1]: <<0, 0>> is 0.0, and <<m, e>> with 2^23 <= m < 2^24 is
\* m / 2^e; the operations round to nearest, ties to even, as the hardware does
F32Zero == <<0, 0>>
F32One == <<8388608, 23>>
\* the literals 0.001, 0.99 and 0.9 as f32
F32Milli == <<8589935, 33>>
F32JoinDecay == <<16609444, 24>>
F32LeaveDecay == <<15099494, 24>>

\* a < b
f32_lt(a, b) ==
    IF b[1] = 0 THEN FALSE
    ELSE IF a[1] = 0 THEN TRUE
    ELSE IF a[2] # b[2] THEN a[2] > b[2]
    ELSE a[1] < b[1]

\* q, or q + 1 when the remainder r of the division by d rounds up
RoundEven(q, r, d) ==
    IF 2 * r > d \/ (2 * r = d /\ q % 2 = 1) THEN q + 1 ELSE q

\* a significand that rounding has carried to 2^24 is brought back to 24 bits
f32_carry(m, e) == IF m = 16777216 THEN <<8388608, e - 1>> ELSE <<m, e>>

\* a * b for a, b above the subnormal range: the 48 bit product of the two
\* significands is summed from 12 bit halves and rounded to 24 bits
f32_mul(a, b) ==
    IF a[1] = 0 \/ b[1] = 0 THEN F32Zero
    ELSE LET a1 == a[1] \div 4096
             a0 == a[1] % 4096
             b1 == b[1] \div 4096
             b0 == b[1] % 4096
             mid == a1 * b0 + a0 * b1
             low == (mid % 4096) * 4096 + a0 * b0
             H == a1 * b1 + mid \div 4096 + low \div 16777216
             L == low % 16777216
         IN IF H >= 8388608
            THEN f32_carry(RoundEven(H, L, 16777216), a[2] + b[2] - 24)
            ELSE f32_carry(RoundEven(2 * H + L \div 8388608, L % 8388608, 8388608),
                           a[2] + b[2] - 23)

\* the significand n > 0 over 2^e, shifted up to 24 bits
RECURSIVE f32_normal(_, _)
f32_normal(n, e) ==
    IF n >= 8388608 THEN <<n, e>> ELSE f32_normal(2 * n, e + 1)

\* 1.0 - v for v in [0, 1]: exact for v >= 0.5, and rounded to a multiple of
\* 2^-24 for v < 0.5
f32_one_minus(v) ==
    IF v[1] = 0 THEN F32One
    ELSE IF v = F32One THEN F32Zero
    ELSE IF v[2] = 24 THEN f32_normal(16777216 - v[1], 24)
    ELSE IF v[2] >= 49 THEN F32One
    ELSE LET d == 2 ^ (v[2] - 24)
             q == v[1] \div d
             r == v[1] % d
             \* 2^24 - q - r/d lies between n - 1 and n
             n == 16777216 - q
             m == IF r = 0 THEN n
                  ELSE IF 2 * r < d THEN n
                  ELSE IF 2 * r > d THEN n - 1
                  ELSE IF n % 2 = 0 THEN n ELSE n - 1
         IN IF m = 16777216 THEN F32One ELSE <<m, 24>>

\* ------------------------------------------------------------------ XRAvatarState
XRJoining(v) == [kind |-> "Joining", v |-> v]
XRLeaving(v) == [kind |-> "Leaving", v |-> v]
XRGone == [kind |-> "Gone", v |-> F32Zero]
XRPresent == [kind |-> "Present", v |-> F32Zero]

gone(self) == self.kind = "Gone"

get_space(self) ==
    CASE self.kind = "Joining" -> f32_one_minus(self.v)
      [] self.kind = "Leaving" -> self.v
      [] self.kind = "Gone" -> F32Zero
      [] self.kind = "Present" -> F32One

\* a Leaving state stays where it is
tick_leaving_stays(self) ==
    CASE self.kind = "Joining" ->
             IF f32_lt(self.v, F32Milli) THEN XRPresent
             ELSE XRJoining(f32_mul(self.v, F32JoinDecay))
      [] OTHER -> self

tick(self) ==
    CASE self.kind = "Joining" ->
             IF f32_lt(self.v, F32Milli) THEN XRPresent
             ELSE XRJoining(f32_mul(self.v, F32JoinDecay))
      [] self.kind = "Leaving" ->
             IF f32_lt(self.v, F32Milli) THEN XRGone
             ELSE XRLeaving(f32_mul(self.v, F32LeaveDecay))
      [] OTHER -> self

leave(self) ==
    CASE self.kind = "Present" -> XRLeaving(F32One)
      [] self.kind = "Joining" -> XRLeaving(f32_one_minus(self.v))
      [] OTHER -> self

\* a Leaving avatar starts over from the far end
join_from_start(self) ==
    CASE self.kind = "Gone" -> XRJoining(F32One)
      [] self.kind = "Leaving" -> XRJoining(F32One)
      [] OTHER -> self

join(self) ==
    CASE self.kind = "Gone" -> XRJoining(F32One)
      [] self.kind = "Leaving" -> XRJoining(f32_one_minus(self.v))
      [] OTHER -> self

\* ------------------------------------------------------------------ XRControl
\* XRAvatar::new: of the avatar, the state alone is kept; its angle, cubes,
\* ui_rect and last_xr_event are written by process_avatar_state and
\* update_avatar and read by neither join, tick, leave nor gone
XRAvatar_new == [state |-> XRJoining(F32One)]

\* process_avatar_state from "ok lets update the states" on: the users of the
\* channel join or get a new avatar; every avatar ticks, leaves when its user is
\* not in the channel, and is removed when gone
process_avatar_state(self, channel) ==
    LET avatars == self.xr_avatars
        joined == [id \in DOMAIN avatars \cup channel.users |->
                      IF id \in DOMAIN avatars
                      THEN IF id \in channel.users
                           THEN [avatars[id] EXCEPT !.state = join(@)]
                           ELSE avatars[id]
                      ELSE XRAvatar_new]
        ticked == [id \in DOMAIN joined |->
                      IF id \in channel.users
                      THEN [joined[id] EXCEPT !.state = tick(@)]
                      ELSE [joined[id] EXCEPT !.state = leave(tick(@))]]
        remove == { id \in DOMAIN ticked : gone(ticked[id].state) }
    IN [self EXCEPT !.xr_avatars = [id \in DOMAIN ticked \ remove |-> ticked[id]]]

\* ------------------------------------------------------------------ the avatars of a channel
\* the remote users that come and go on the channel
XRUserIds == {1}

\* c multiplied k times into 1.0
RECURSIVE f32_pow(_, _)
f32_pow(c, k) == IF k = 0 THEN F32One ELSE f32_mul(f32_pow(c, k - 1), c)

\* a user comes or goes while its avatar is at rest (none, or Present) or at
\* most MaxEarly ticks into a transition that started from rest
MayChange(id) ==
    IF id \notin DOMAIN xr_control.xr_avatars THEN TRUE
    ELSE LET state == xr_control.xr_avatars[id].state IN
         CASE state.kind = "Joining" ->
                  ~f32_lt(state.v, f32_pow(F32JoinDecay, MaxEarly))
           [] state.kind = "Leaving" ->
                  ~f32_lt(state.v, f32_pow(F32LeaveDecay, MaxEarly))
           [] OTHER -> TRUE

InitAvatar ==
    /\ caller = [anims |-> {}, props |-> {}, draws |-> "View", calc_area |-> FALSE]
    /\ animator = [current |-> None, next |-> None, area |-> Empty,
                   live_update_id |-> 0, last_values |-> <<>>]
    /\ cx = [live_update_id |-> 0,
             redraw_id |-> 0,
             playing_anim_areas |-> [a \in {} |-> 0]]
    /\ xr_control = XRControl_new
    /\ xr_channel = XRChannel_default

XRStep(control, channel) ==
    /\ xr_control' = control
    /\ xr_channel' = channel
    /\ UNCHANGED <<animator, cx, caller>>

\* handle_xr_control hands the channel to process_avatar_state at every update
ProcessAvatarState ==
    XRStep(process_avatar_state(xr_control, xr_channel), xr_channel)

\* an update of a remote user enters the channel
UserArrives ==
    \E id \in XRUserIds \ xr_channel.users :
        /\ MayChange(id)
        /\ XRStep(xr_control, [xr_channel EXCEPT !.users = @ \cup {id}])

\* a remote user drops out of the channel
UserDeparts ==
    \E id \in xr_channel.users :
        /\ MayChange(id)
        /\ XRStep(xr_control, [xr_channel EXCEPT !.users = @ \ {id}])

NextAvatar ==
    \/ ProcessAvatarState
    \/ UserArrives
    \/ UserDeparts

SpecAvatar == InitAvatar /\ [][NextAvatar]_vars

\* every update of the XR session calls process_avatar_state
SpecAvatarFair == SpecAvatar /\ WF_vars(ProcessAvatarState)

\* ------------------------------------------------------------------ C39
HasAvatar(id) == id \in DOMAIN xr_control.xr_avatars

\* C39: an avatar whose user stays out of the channel from some call on is
\* removed from xr_avatars after finitely many calls of process_avatar_state,
\* at the call that takes it from Leaving to Gone, so that no avatar of
\* xr_avatars is ever Gone after a call; and an avatar whose user stays in the
\* channel is Present after finitely many calls
C39_AvatarDeparture ==
    /\ [](\A id \in XRUserIds : HasAvatar(id) => ~gone(xr_control.xr_avatars[id].state))
    /\ [][\A id \in XRUserIds :
             (HasAvatar(id) /\ id \notin DOMAIN xr_control'.xr_avatars) =>
                 /\ xr_control.xr_avatars[id].state.kind = "Leaving"
                 /\ gone(tick(xr_control.xr_avatars[id].state))]_vars
    /\ \A id \in XRUserIds :
          <>[](id \notin xr_channel.users) => <>[](~HasAvatar(id))
    /\ \A id \in XRUserIds :
          <>[](id \in xr_channel.users) =>
              <>[](HasAvatar(id) /\ xr_control.xr_avatars[id].state = XRPresent)

\* the user is out of the channel and its avatar has shrunk below 0.001: the
\* next call takes it to Gone and removes it
C39_Witness ==
    \E id \in XRUserIds :
        /\ id \notin xr_channel.users
        /\ HasAvatar(id)
        /\ xr_control.xr_avatars[id].state.kind = "Leaving"
        /\ f32_lt(xr_control.xr_avatars[id].state.v, F32Milli)
        /\ id \notin DOMAIN process_avatar_state(xr_control, xr_channel).xr_avatars

\* ------------------------------------------------------------------ C40
\* |a - b| <= 2^-k, computed on the common scale 2^-e of the two values
f32_within(a, b, k) ==
    LET e == IF a[2] > b[2] THEN a[2] ELSE b[2]
        gap == IF a[2] > b[2] THEN a[2] - b[2] ELSE b[2] - a[2]
    IN IF a[1] # 0 /\ b[1] # 0 /\ gap > 6
       THEN \* the larger value is more than 64 times the smaller one
            e - gap >= k + 24
       ELSE LET x == IF a[1] = 0 THEN 0 ELSE a[1] * 2 ^ (e - a[2])
                y == IF b[1] = 0 THEN 0 ELSE b[1] * 2 ^ (e - b[2])
                diff == IF x > y THEN x - y ELSE y - x
            IN IF e < k THEN diff = 0
               ELSE IF e - k >= 30 THEN TRUE
               ELSE diff <= 2 ^ (e - k)

\* the states an avatar of xr_avatars is in before, between and after the
\* calls of join, tick and leave in process_avatar_state, and the two states
\* without a value
AvatarStates ==
    LET held == { xr_control.xr_avatars[id].state : id \in DOMAIN xr_control.xr_avatars }
        joined == held \cup { join(s) : s \in held }
        ticked == joined \cup { tick(s) : s \in joined }
    IN ticked \cup { leave(s) : s \in ticked } \cup {XRGone, XRPresent, XRJoining(F32One)}

\* leave() and join() have no effect on the states they are not meant for
NoEffect(s) ==
    /\ s.kind \in {"Leaving", "Gone"} => leave(s) = s
    /\ s.kind \in {"Joining", "Present"} => join(s) = s

\* C40 as stated: for every XRAvatarState, get_space() is the same before and
\* after leave() and the same before and after join(); leave() has no effect
\* on Leaving and Gone, join() none on Joining and Present
C40_AsStated ==
    \A s \in AvatarStates :
        /\ get_space(leave(s)) = get_space(s)
        /\ get_space(join(s)) = get_space(s)
        /\ NoEffect(s)

\* C40 amended: get_space() is the same before and after leave(), and before
\* and after join() on Gone, Joining and Present; join() on Leaving(f) gives
\* the space 1.0 - (1.0 - f), which is f when f >= 0.5 and otherwise within
\* the rounding of the f32 subtraction 1.0 - f, 2^-25, of f
C40_SpaceContinuity ==
    \A s \in AvatarStates :
        /\ get_space(leave(s)) = get_space(s)
        /\ s.kind # "Leaving" => get_space(join(s)) = get_space(s)
        /\ s.kind = "Leaving" =>
              /\ f32_within(get_space(join(s)), get_space(s), 25)
              /\ ~f32_lt(s.v, <<8388608, 24>>) => get_space(join(s)) = get_space(s)
        /\ NoEffect(s)

\* an avatar is Leaving with a value below 0.5 that join() does not give back
\* bit for bit, and another state of the call is Joining, part of the way
C40_Witness ==
    /\ \E s \in AvatarStates :
          /\ s.kind = "Leaving"
          /\ f32_lt(s.v, <<8388608, 24>>)
          /\ get_space(join(s)) # get_space(s)
    /\ \E s \in AvatarStates :
          /\ s.kind = "Joining"
          /\ s.v \notin {F32Zero, F32One}

====
